---- MODULE Spec2Model ----
(***************************************************************************)
(* A model of the firefly retirement-planning engine: the financial math   *)
(* primitives, the FinancialProfile / RetirementPlan value objects, the    *)
(* deterministic projector, the Monte Carlo simulator with numpy's         *)
(* process-global random generator, and the scenario analyzer.             *)
(*                                                                         *)
(* Python floats are modelled as exact rationals <<n, d>> in lowest terms  *)
(* with d > 0, so the arithmetic below is the arithmetic of the source     *)
(* without floating-point rounding.  Python's None is the pair <<0, 0>>,   *)
(* which is no rational.  Where a property turns on rounding (the          *)
(* compounding laws, the on-track boundary) the operations are those of a  *)
(* binary float with a significand of MantissaBits bits: FloatRound and    *)
(* the ...Rounded operators.                                               *)
(***************************************************************************)
EXTENDS Integers, Sequences, FiniteSets, TLC

VARIABLES
    today,          \* date.today(), <<year, month, day>>
    profile,        \* the FinancialProfile handed to the plan / projector
    plan,           \* the RetirementPlan handed to the plan / projector
    calc_in,        \* arguments of the FinancialCalculator call
    calc_out,       \* what the FinancialCalculator call returned or raised
    plan_out,       \* what the RetirementPlan method returned
    pc,             \* where the running RetirementProjector method stands
    frame,          \* the local variables of the running projector method
    proj_ret,       \* what the projector methods returned
    rng,            \* numpy's process-global RandomState (np.random)
    mc,             \* per caller: the running Monte Carlo call and its locals
    mc_args,        \* the arguments the Monte Carlo operations are called with
    mc_log,         \* the Monte Carlo calls that returned, in order of return
    heap,           \* the dict objects, by reference
    base_profile,   \* ScenarioAnalyzer.base_profile; its dict fields are references
    base_plan,      \* ScenarioAnalyzer.base_plan
    scen_ret,       \* the last scenario operation: what it evaluated and returned
    scen_hist,      \* the base as constructed, whether an operation has failed,
                    \* and the date of the last operation
    reads,          \* the reads of an object's derived properties, in order
    ctor,           \* the last FinancialProfile(...) call: arguments and outcome
    portfolio       \* the investments of a Portfolio, in list order

inputVars == <<today, profile, plan, reads, ctor, portfolio>>
calcVars == <<calc_in, calc_out>>
planVars == <<plan_out>>
projVars == <<pc, frame, proj_ret>>
mcVars == <<rng, mc, mc_args, mc_log>>
scenVars == <<heap, base_profile, base_plan, scen_ret, scen_hist>>
vars == <<today, profile, plan, calc_in, calc_out, plan_out, pc, frame, proj_ret,
          rng, mc, mc_args, mc_log, heap, base_profile, base_plan, scen_ret,
          scen_hist, reads, ctor, portfolio>>

-----------------------------------------------------------------------------
(* Bounds of the model.                                                    *)

MaxPeriods == 4     \* |periods| of a calculator call
MaxYears == 2       \* years from the youngest profile's age to the target age
MaxHorizon == 3     \* years_in_retirement of a withdrawal projection
MaxCalls == 3       \* Monte Carlo calls made in one behaviour
MaxSims == 2        \* simulations of a Monte Carlo call
MaxScenarios == 3   \* length of the list handed to compare_scenarios
MaxReads == 2       \* reads of the derived properties in one behaviour
MaxHoldings == 3    \* investments held by a portfolio
MantissaBits == 5   \* significand width of the floats where rounding is modelled

-----------------------------------------------------------------------------
(* Exact rational arithmetic standing for Python float arithmetic.         *)

Abs(x) == IF x < 0 THEN -x ELSE x

\* Functions, so that TLC evaluates the arguments before the application.
GCD[a \in Nat, b \in Nat] == IF b = 0 THEN a ELSE GCD[b, a % b]

NormPair[x \in Int \X Int] ==
    LET g == GCD[Abs(x[1]), Abs(x[2])]
        s == IF x[2] < 0 THEN -1 ELSE 1
    IN  <<(s * x[1]) \div g, (s * x[2]) \div g>>

Norm(n, d) == NormPair[<<n, d>>]

Q(n, d) == Norm(n, d)
Num(n) == <<n, 1>>
Zero == <<0, 1>>
One == <<1, 1>>
Hundred == <<100, 1>>
None == <<0, 0>>

\* The operations are functions of the pair of operands, so that TLC
\* evaluates each operand once.  Sums and comparisons go through the least
\* common denominator and products cancel crosswise first, which keeps the
\* intermediate integers small; the values are those of the textbook formulas.
Rats == Int \X Int
Lcd(a, b) == (a[2] \div GCD[a[2], b[2]]) * b[2]
Scaled(a, l) == a[1] * (l \div a[2])
AddPair[x \in Rats \X Rats] ==
    NormPair[<<Scaled(x[1], Lcd(x[1], x[2])) + Scaled(x[2], Lcd(x[1], x[2])),
               Lcd(x[1], x[2])>>]
MulPair[x \in Rats \X Rats] ==
    NormPair[<<(x[1][1] \div GCD[Abs(x[1][1]), x[2][2]])
                 * (x[2][1] \div GCD[Abs(x[2][1]), x[1][2]]),
               (x[1][2] \div GCD[Abs(x[2][1]), x[1][2]])
                 * (x[2][2] \div GCD[Abs(x[1][1]), x[2][2]])>>]
LtPair[x \in Rats \X Rats] ==
    Scaled(x[1], Lcd(x[1], x[2])) < Scaled(x[2], Lcd(x[1], x[2]))
Negated[a \in Rats] == <<-a[1], a[2]>>
Reciprocal[a \in Rats] == NormPair[<<a[2], a[1]>>]

RAdd(a, b) == AddPair[<<a, b>>]
RSub(a, b) == AddPair[<<a, Negated[b]>>]
RMul(a, b) == MulPair[<<a, b>>]
RDiv(a, b) == MulPair[<<a, Reciprocal[b]>>]
RLt(a, b) == LtPair[<<a, b>>]
RLe(a, b) == ~LtPair[<<b, a>>]
RGe(a, b) == ~LtPair[<<a, b>>]
RGt(a, b) == LtPair[<<b, a>>]

\* Python's max(a, b) and min(a, b): the first argument wins a tie.
MaxPair[x \in Rats \X Rats] == IF LtPair[<<x[1], x[2]>>] THEN x[2] ELSE x[1]
MinPair[x \in Rats \X Rats] == IF LtPair[<<x[2], x[1]>>] THEN x[2] ELSE x[1]
RMax(a, b) == MaxPair[<<a, b>>]
RMin(a, b) == MinPair[<<a, b>>]

\* Python's int(x): truncation toward zero.
TruncOf[a \in Rats] == IF a[1] >= 0 THEN a[1] \div a[2] ELSE -((-a[1]) \div a[2])
Trunc(a) == TruncOf[a]

\* x ** k for an integer k; a zero base with k < 0 is Python's
\* ZeroDivisionError and is guarded by the callers.
PowNat[a \in Rats, k \in Nat] == IF k = 0 THEN One ELSE MulPair[<<a, PowNat[a, k - 1]>>]
RPow(a, k) == IF k >= 0 THEN PowNat[a, k] ELSE Reciprocal[PowNat[a, -k]]

\* Python truthiness of an Optional[float]: None and 0.0 are both false.
Truthy(x) == x # None /\ x[1] # 0

\* sum(d.values()) of a dict, here a function from names to rationals.
RECURSIVE SumOver(_, _)
SumOver(f, S) ==
    IF S = {} THEN Zero
    ELSE LET k == CHOOSE x \in S : TRUE
         IN  RAdd(f[k], SumOver(f, S \ {k}))
SumValues(f) == SumOver(f, DOMAIN f)

EmptyDict == [k \in {} |-> Zero]

-----------------------------------------------------------------------------
(* FinancialProfile: derived properties.                                   *)

\* (today.month, today.day) < (birth.month, birth.day), a tuple comparison.
BeforeBirthday(t, b) == t[2] < b[2] \/ (t[2] = b[2] /\ t[3] < b[3])

Age(p, t) ==
    t[1] - p.birth_date[1] - (IF BeforeBirthday(t, p.birth_date) THEN 1 ELSE 0)

TotalAssets(p) ==
    RAdd(RAdd(p.current_savings, SumValues(p.investment_accounts)),
         SumValues(p.retirement_accounts))

TotalDebts(p) == SumValues(p.debts)

AnnualExpenses(p) == RMul(p.monthly_expenses, Num(12))

NetWorth(p) == RSub(TotalAssets(p), TotalDebts(p))

\* Lines 88-94: 0.0 without income, else the year's savings over the income.
SavingsRateOfEarlierReads(p) ==
    IF reads = <<>> /\ ctor = None THEN Zero ELSE RAdd(reads[1].derived.savings_rate, One)
SavingsRate(p) ==
    IF p.annual_income = Zero THEN Zero
    ELSE RDiv(RMul(p.monthly_savings, Num(12)), p.annual_income)

\* One read of each derived property of p on the date t.
Derived(p, t) ==
    [age |-> Age(p, t),
     total_assets |-> TotalAssets(p),
     total_debts |-> TotalDebts(p),
     net_worth |-> NetWorth(p),
     annual_expenses |-> AnnualExpenses(p),
     savings_rate |-> SavingsRate(p)]

\* __post_init__ with the check of annual_income alone.
PostInitIncomeOnly(p) ==
    IF RLt(p.annual_income, Zero) THEN "ValueError" ELSE "ok"

\* __post_init__: the ValueError raised by the constructor, or "ok".
PostInit(p) ==
    IF RLt(p.annual_income, Zero) THEN "ValueError"
    ELSE IF RLt(p.monthly_expenses, Zero) THEN "ValueError"
    ELSE IF RLt(p.current_savings, Zero) THEN "ValueError"
    ELSE "ok"

-----------------------------------------------------------------------------
(* RetirementPlan.                                                         *)

CalculateRequiredPortfolioValue(pl, p) ==
    LET target_income ==
            IF RGt(pl.target_annual_income, Zero)
            THEN pl.target_annual_income
            ELSE RMul(p.annual_income, pl.target_income_replacement_ratio)
        net_income_needed ==
            IF Truthy(pl.estimated_social_security)
            THEN RSub(target_income, pl.estimated_social_security)
            ELSE target_income
    IN  RDiv(net_income_needed, pl.withdrawal_rate)

\* (((1 + monthly_rate) ** months) - 1) / monthly_rate
FvAnnuityFactor(monthly_rate, months) ==
    RDiv(RSub(RPow(RAdd(One, monthly_rate), months), One), monthly_rate)

\* The only clamp applied to the score: min(100.0, x).
ClampScore(x) == RMin(Hundred, x)

CalculateRetirementReadinessScore(pl, p, t) ==
    LET required_portfolio == CalculateRequiredPortfolioValue(pl, p)
        current_assets == TotalAssets(p)
        years_to_retirement == pl.target_retirement_age - Age(p, t)
        monthly_rate == RDiv(pl.investment_return_rate, Num(12))
        months == years_to_retirement * 12
        future_current ==
            RMul(current_assets,
                 RPow(RAdd(One, pl.investment_return_rate), years_to_retirement))
        future_savings ==
            IF RGt(monthly_rate, Zero) /\ RGt(p.monthly_savings, Zero)
            THEN RMul(p.monthly_savings, FvAnnuityFactor(monthly_rate, months))
            ELSE RMul(p.monthly_savings, Num(months))
        projected_total == RAdd(future_current, future_savings)
    IN  IF required_portfolio = Zero THEN Hundred
        ELSE IF years_to_retirement <= 0
        THEN ClampScore(RMul(RDiv(current_assets, required_portfolio), Hundred))
        ELSE ClampScore(RMul(RDiv(projected_total, required_portfolio), Hundred))

CalculateMonthlySavingsNeeded(pl, p, t) ==
    LET required_portfolio == CalculateRequiredPortfolioValue(pl, p)
        current_assets == TotalAssets(p)
        years_to_retirement == pl.target_retirement_age - Age(p, t)
        future_value_current ==
            RMul(current_assets,
                 RPow(RAdd(One, pl.investment_return_rate), years_to_retirement))
        net_additional_needed ==
            RMax(Zero, RSub(required_portfolio, future_value_current))
        monthly_rate == RDiv(pl.investment_return_rate, Num(12))
        months == years_to_retirement * 12
    IN  IF years_to_retirement <= 0 THEN Zero
        ELSE IF net_additional_needed = Zero THEN Zero
        ELSE IF monthly_rate = Zero
        THEN RDiv(net_additional_needed, Num(months))
        ELSE RDiv(net_additional_needed, FvAnnuityFactor(monthly_rate, months))

-----------------------------------------------------------------------------
(* FinancialCalculator.                                                    *)

\* present_value * (1 + rate * periods): interest that does not compound.
FutureValueSimpleInterest(pv, rate, periods) ==
    [status |-> "ok", value |-> RMul(pv, RAdd(One, RMul(rate, Num(periods))))]

\* present_value * (1 + rate) ** periods.  Python raises ZeroDivisionError
\* for 0.0 ** k with k < 0; nothing else is raised.
FutureValue(pv, rate, periods) ==
    IF periods < 0 /\ RAdd(One, rate) = Zero
    THEN [status |-> "ZeroDivisionError", value |-> None]
    ELSE [status |-> "ok", value |-> RMul(pv, RPow(RAdd(One, rate), periods))]

\* payment * periods at rate 0, else payment * (((1 + rate) ** periods - 1) / rate).
FutureValueAnnuity(payment, rate, periods) ==
    IF rate = Zero THEN RMul(payment, Num(periods))
    ELSE RMul(payment, RDiv(RSub(RPow(RAdd(One, rate), periods), One), rate))

\* Binary floating point with a significand of MantissaBits bits: the
\* nearest such number to x, ties to the even significand.
RECURSIVE Exponent(_, _)
Exponent(x, e) ==
    IF RGe(x, Num(2 ^ MantissaBits)) THEN Exponent(RDiv(x, Num(2)), e + 1)
    ELSE IF RLt(x, Num(2 ^ (MantissaBits - 1))) THEN Exponent(RMul(x, Num(2)), e - 1)
    ELSE e
Pow2(e) == IF e >= 0 THEN Num(2 ^ e) ELSE Q(1, 2 ^ (-e))
NearestEven(y) ==
    LET q == y[1] \div y[2]
        r == y[1] % y[2]
    IN  IF 2 * r > y[2] \/ (2 * r = y[2] /\ q % 2 = 1) THEN q + 1 ELSE q
FloatRoundPositive(x) ==
    LET e == Exponent(x, 0)
    IN  RMul(Num(NearestEven(RDiv(x, Pow2(e)))), Pow2(e))
FloatRound(x) ==
    IF x = Zero THEN Zero
    ELSE IF RLt(x, Zero) THEN RSub(Zero, FloatRoundPositive(RSub(Zero, x)))
    ELSE FloatRoundPositive(x)

FutureValueOnePeriodMore(pv, rate, periods) ==
    [status |-> "ok",
     value |-> FloatRound(RMul(pv, FloatRound(RPow(FloatRound(RAdd(One, rate)),
                                                   periods + 1))))]

\* future_value in that arithmetic, for periods >= 0: the sum, the power
\* and the product are each rounded once.
FutureValueRounded(pv, rate, periods) ==
    [status |-> "ok",
     value |-> FloatRound(RMul(pv, FloatRound(RPow(FloatRound(RAdd(One, rate)),
                                                   periods))))]

PresentValueUndiscounted(fv, rate, periods) ==
    [status |-> "ok", value |-> fv]

\* present_value in the same arithmetic, for periods >= 0:
\* future_value / (1 + rate) ** periods, where the division raises
\* ZeroDivisionError when the power is 0.
PresentValueRounded(fv, rate, periods) ==
    LET power == FloatRound(RPow(FloatRound(RAdd(One, rate)), periods))
    IN  IF power = Zero
        THEN [status |-> "ZeroDivisionError", value |-> None]
        ELSE [status |-> "ok", value |-> FloatRound(RDiv(fv, power))]

-----------------------------------------------------------------------------
(* RetirementProjector: the deterministic projection, one loop iteration   *)
(* per step.                                                               *)

BaseYear == 2024

\* range(self.plan.target_retirement_age - current_age + 1): the number of
\* iterations of the accumulation loop (none when the argument is <= 0).
AccumulationRangeShort(pl, p, t) == pl.target_retirement_age - Age(p, t)
AccumulationRange(pl, p, t) == pl.target_retirement_age - Age(p, t) + 1

\* portfolio_value=max(0, portfolio_value) of a withdrawal row.
ReportedValueRaw(v) == v
ReportedValue(v) == RMax(Zero, v)

\* Lines 65-72: the locals of project_to_retirement before its loop.
AccumulationFrame(method, h, pl, p, t) ==
    [method |-> method,
     years_in_retirement |-> h,
     current_age |-> Age(p, t),
     year_offset |-> 0,
     portfolio_value |-> TotalAssets(p),
     annual_contribution |-> RMul(p.monthly_savings, Num(12)),
     annual_expenses |-> AnnualExpenses(p),
     total_contributions |-> Zero,
     total_returns |-> Zero,
     projections |-> <<>>]

\* Lines 86-88: amount *= (1 + rate) in every year but the first.
InflatedNever(year_offset, amount, rate) == amount
InflatedAfterFirstYear(year_offset, amount, rate) ==
    IF year_offset > 0 THEN RMul(amount, RAdd(One, rate)) ELSE amount

\* Lines 76-104: one iteration of the accumulation loop.
AccumulationIteration(f, pl, p) ==
    LET age == f.current_age + f.year_offset
        year == BaseYear + f.year_offset
        annual_return == RMul(f.portfolio_value, pl.investment_return_rate)
        portfolio_value ==
            RAdd(f.portfolio_value, RAdd(f.annual_contribution, annual_return))
        annual_contribution ==
            InflatedAfterFirstYear(f.year_offset, f.annual_contribution,
                                   p.income_growth_rate)
        annual_expenses ==
            InflatedAfterFirstYear(f.year_offset, f.annual_expenses,
                                   p.expense_growth_rate)
        projection ==
            [year |-> year, age |-> age,
             portfolio_value |-> portfolio_value,
             annual_contribution |-> annual_contribution,
             annual_return |-> annual_return,
             expenses |-> annual_expenses,
             net_worth |-> RSub(portfolio_value, TotalDebts(p))]
    IN  [f EXCEPT !.year_offset = @ + 1,
                  !.portfolio_value = portfolio_value,
                  !.annual_contribution = annual_contribution,
                  !.annual_expenses = annual_expenses,
                  !.total_contributions = RAdd(@, annual_contribution),
                  !.total_returns = RAdd(@, annual_return),
                  !.projections = Append(@, projection)]

\* Lines 106-126: the RetirementProjection returned after the loop.
RetirementProjectionOf(f, pl, p) ==
    LET required_portfolio == CalculateRequiredPortfolioValue(pl, p)
        retirement_expenses ==
            IF Truthy(pl.estimated_social_security)
            THEN RSub(f.annual_expenses, pl.estimated_social_security)
            ELSE f.annual_expenses
        years_funded ==
            IF RGt(retirement_expenses, Zero)
            THEN Trunc(RDiv(f.portfolio_value, retirement_expenses))
            ELSE 0
    IN  [yearly_projections |-> f.projections,
         total_contributions |-> f.total_contributions,
         total_returns |-> f.total_returns,
         final_portfolio_value |-> f.portfolio_value,
         retirement_feasible |-> RGe(f.portfolio_value, required_portfolio),
         years_of_retirement_funded |-> years_funded]

\* Lines 139-159: the locals of project_retirement_withdrawal before its
\* loop, given the projection project_to_retirement returned.
WithdrawalFrame(h, projection, pl, p, t) ==
    LET years_to_retirement == pl.target_retirement_age - Age(p, t)
        factor == RPow(RAdd(One, pl.inflation_rate), years_to_retirement)
        inflation_adjusted_expenses == RMul(AnnualExpenses(p), factor)
        net_withdrawal_needed ==
            IF Truthy(pl.estimated_social_security)
            THEN RSub(inflation_adjusted_expenses,
                      RMul(pl.estimated_social_security, factor))
            ELSE inflation_adjusted_expenses
    IN  [method |-> "project_retirement_withdrawal",
         years_in_retirement |-> h,
         retirement_year |-> 0,
         portfolio_value |-> projection.final_portfolio_value,
         net_withdrawal_needed |-> net_withdrawal_needed,
         retirement_start_year |-> BaseYear + years_to_retirement,
         withdrawal_projections |-> <<>>]

WithdrawalIterationAYearOlder(f, pl) ==
    LET annual_return == RMul(f.portfolio_value, pl.investment_return_rate)
        portfolio_value ==
            RSub(RAdd(f.portfolio_value, annual_return), f.net_withdrawal_needed)
        net_withdrawal_needed ==
            RMul(f.net_withdrawal_needed, RAdd(One, pl.inflation_rate))
    IN  [f EXCEPT !.retirement_year = @ + 1,
                  !.portfolio_value = portfolio_value,
                  !.net_withdrawal_needed = net_withdrawal_needed,
                  !.withdrawal_projections =
                      Append(@, [year |-> f.retirement_start_year + f.retirement_year,
                                 age |-> pl.target_retirement_age + f.retirement_year + 1,
                                 portfolio_value |-> ReportedValue(portfolio_value),
                                 annual_contribution |-> RSub(Zero, net_withdrawal_needed),
                                 annual_return |-> annual_return,
                                 expenses |-> net_withdrawal_needed,
                                 net_worth |-> RMax(Zero, portfolio_value)])]

\* Lines 162-184: one iteration of the withdrawal loop.
WithdrawalIteration(f, pl) ==
    LET age == pl.target_retirement_age + f.retirement_year
        year == f.retirement_start_year + f.retirement_year
        annual_return == RMul(f.portfolio_value, pl.investment_return_rate)
        portfolio_value ==
            RSub(RAdd(f.portfolio_value, annual_return), f.net_withdrawal_needed)
        net_withdrawal_needed ==
            RMul(f.net_withdrawal_needed, RAdd(One, pl.inflation_rate))
        projection ==
            [year |-> year, age |-> age,
             portfolio_value |-> ReportedValue(portfolio_value),
             annual_contribution |-> RSub(Zero, net_withdrawal_needed),
             annual_return |-> annual_return,
             expenses |->
                RAdd(net_withdrawal_needed,
                     IF Truthy(pl.estimated_social_security)
                     THEN pl.estimated_social_security ELSE Zero),
             net_worth |-> RMax(Zero, portfolio_value)]
    IN  [f EXCEPT !.retirement_year = @ + 1,
                  !.portfolio_value = portfolio_value,
                  !.net_withdrawal_needed = net_withdrawal_needed,
                  !.withdrawal_projections = Append(@, projection)]

\* if portfolio_value <= 0: break
Depleted(f) == RLe(f.portfolio_value, Zero)

CallProjectToRetirement ==
    /\ pc = "idle"
    /\ pc' = "accumulation"
    /\ frame' = AccumulationFrame("project_to_retirement", 0, plan, profile, today)
    /\ UNCHANGED <<proj_ret, inputVars, calcVars, planVars, mcVars, scenVars>>

CallProjectRetirementWithdrawal(h) ==
    /\ pc = "idle"
    /\ pc' = "accumulation"
    /\ frame' = AccumulationFrame("project_retirement_withdrawal", h,
                                  plan, profile, today)
    /\ UNCHANGED <<proj_ret, inputVars, calcVars, planVars, mcVars, scenVars>>

AccumulationStep ==
    /\ pc = "accumulation"
    /\ frame.year_offset < AccumulationRange(plan, profile, today)
    /\ frame' = AccumulationIteration(frame, plan, profile)
    /\ UNCHANGED <<pc, proj_ret, inputVars, calcVars, planVars, mcVars, scenVars>>

\* The loop is over: project_to_retirement returns, to its caller or into
\* project_retirement_withdrawal (line 138).
AccumulationReturn ==
    /\ pc = "accumulation"
    /\ frame.year_offset >= AccumulationRange(plan, profile, today)
    /\ LET projection == RetirementProjectionOf(frame, plan, profile)
       IN  /\ proj_ret' = [proj_ret EXCEPT !.projection = projection]
           /\ IF frame.method = "project_to_retirement"
              THEN pc' = "returned" /\ frame' = frame
              ELSE /\ pc' = "withdrawal"
                   /\ frame' = WithdrawalFrame(frame.years_in_retirement,
                                               projection, plan, profile, today)
    /\ UNCHANGED <<inputVars, calcVars, planVars, mcVars, scenVars>>

\* One withdrawal year; the break on depletion returns the rows at once.
WithdrawalStep ==
    /\ pc = "withdrawal"
    /\ frame.retirement_year < frame.years_in_retirement
    /\ LET f == WithdrawalIteration(frame, plan)
       IN  /\ frame' = f
           /\ IF Depleted(f)
              THEN /\ pc' = "returned"
                   /\ proj_ret' = [proj_ret EXCEPT
                                      !.withdrawal = f.withdrawal_projections]
              ELSE UNCHANGED <<pc, proj_ret>>
    /\ UNCHANGED <<inputVars, calcVars, planVars, mcVars, scenVars>>

\* range(years_in_retirement) is exhausted: the rows are returned.
WithdrawalReturn ==
    /\ pc = "withdrawal"
    /\ frame.retirement_year >= frame.years_in_retirement
    /\ pc' = "returned"
    /\ proj_ret' = [proj_ret EXCEPT !.withdrawal = frame.withdrawal_projections]
    /\ UNCHANGED <<frame, inputVars, calcVars, planVars, mcVars, scenVars>>

\* The float operations: the exact result, rounded once.
FAdd(a, b) == FloatRound(RAdd(a, b))
FSub(a, b) == FloatRound(RSub(a, b))
FMul(a, b) == FloatRound(RMul(a, b))
FDiv(a, b) == FloatRound(RDiv(a, b))
FPow(a, k) == FloatRound(RPow(a, k))

\* The RetirementPlan methods in that arithmetic, for a profile whose
\* assets are its current savings.
RequiredPortfolioValueRounded(pl, p) ==
    LET target_income ==
            IF RGt(pl.target_annual_income, Zero)
            THEN pl.target_annual_income
            ELSE FMul(p.annual_income, pl.target_income_replacement_ratio)
        net_income_needed ==
            IF Truthy(pl.estimated_social_security)
            THEN FSub(target_income, pl.estimated_social_security)
            ELSE target_income
    IN  FDiv(net_income_needed, pl.withdrawal_rate)

FvAnnuityFactorRounded(monthly_rate, months) ==
    FDiv(FSub(FPow(FAdd(One, monthly_rate), months), One), monthly_rate)

MonthlySavingsNeededHalved(pl, p, t) ==
    LET years_to_retirement == pl.target_retirement_age - Age(p, t)
    IN  IF years_to_retirement <= 0 THEN Zero
        ELSE FDiv(RMax(Zero, RSub(RequiredPortfolioValueRounded(pl, p),
                                  p.current_savings)),
                  Num(24 * years_to_retirement))

MonthlySavingsNeededRounded(pl, p, t) ==
    LET required_portfolio == RequiredPortfolioValueRounded(pl, p)
        current_assets == p.current_savings
        years_to_retirement == pl.target_retirement_age - Age(p, t)
        future_value_current ==
            FMul(current_assets,
                 FPow(FAdd(One, pl.investment_return_rate), years_to_retirement))
        net_additional_needed ==
            RMax(Zero, FSub(required_portfolio, future_value_current))
        monthly_rate == FDiv(pl.investment_return_rate, Num(12))
        months == years_to_retirement * 12
    IN  IF years_to_retirement <= 0 THEN Zero
        ELSE IF net_additional_needed = Zero THEN Zero
        ELSE IF monthly_rate = Zero
        THEN FDiv(net_additional_needed, Num(months))
        ELSE FDiv(net_additional_needed, FvAnnuityFactorRounded(monthly_rate, months))

\* is_on_track: monthly_savings >= the savings needed.
IsOnTrackRounded(pl, p, t) ==
    RGe(p.monthly_savings, MonthlySavingsNeededRounded(pl, p, t))

ReadinessScoreRounded(pl, p, t) ==
    LET required_portfolio == RequiredPortfolioValueRounded(pl, p)
        current_assets == p.current_savings
        years_to_retirement == pl.target_retirement_age - Age(p, t)
        monthly_rate == FDiv(pl.investment_return_rate, Num(12))
        months == years_to_retirement * 12
        future_current ==
            FMul(current_assets,
                 FPow(FAdd(One, pl.investment_return_rate), years_to_retirement))
        future_savings ==
            IF RGt(monthly_rate, Zero) /\ RGt(p.monthly_savings, Zero)
            THEN FMul(p.monthly_savings, FvAnnuityFactorRounded(monthly_rate, months))
            ELSE FMul(p.monthly_savings, Num(months))
        projected_total == FAdd(future_current, future_savings)
    IN  IF required_portfolio = Zero THEN Hundred
        ELSE IF years_to_retirement <= 0
        THEN ClampScore(FMul(FDiv(current_assets, required_portfolio), Hundred))
        ELSE ClampScore(FMul(FDiv(projected_total, required_portfolio), Hundred))

-----------------------------------------------------------------------------
(* Portfolio: a list of Investment objects and its derived properties.     *)

\* Investment.current_value
CurrentValue(investment) == RMul(investment.shares, investment.current_price)

\* Portfolio.total_value: sum(...) adds the values in list order from 0.
RECURSIVE SumOfValues(_, _)
SumOfValues(investments, i) ==
    IF i = 0 THEN Zero
    ELSE RAdd(SumOfValues(investments, i - 1), CurrentValue(investments[i]))
TotalValue(investments) == SumOfValues(investments, Len(investments))

\* The first loop of asset_allocation from its i-th investment on.
RECURSIVE AllocationLoop(_, _, _)
AllocationLoop(investments, i, allocation) ==
    IF i > Len(investments) THEN allocation
    ELSE LET asset_class == investments[i].asset_class
             started == [c \in DOMAIN allocation \cup {asset_class} |->
                            IF c \in DOMAIN allocation THEN allocation[c] ELSE Zero]
         IN  AllocationLoop(investments, i + 1,
                 [started EXCEPT ![asset_class] =
                     RAdd(@, CurrentValue(investments[i]))])

\* The second loop: every sum is divided by the total value.
FractionsSkipped(allocation, total_value) == allocation
Fractions(allocation, total_value) ==
    [c \in DOMAIN allocation |-> RDiv(allocation[c], total_value)]

AssetAllocation(investments) ==
    IF TotalValue(investments) = Zero THEN EmptyDict
    ELSE Fractions(AllocationLoop(investments, 1, EmptyDict),
                   TotalValue(investments))

\* The index of the first investment with the symbol, 0 when there is none.
RECURSIVE FirstWithSymbol(_, _, _)
FirstWithSymbol(investments, symbol, i) ==
    IF i > Len(investments) THEN 0
    ELSE IF investments[i].symbol = symbol THEN i
    ELSE FirstWithSymbol(investments, symbol, i + 1)

\* del self.investments[i]
Without(investments, i) ==
    [j \in 1..(Len(investments) - 1) |->
        IF j < i THEN investments[j] ELSE investments[j + 1]]

-----------------------------------------------------------------------------
(* RetirementProjector.calculate_fire_metrics.                             *)

\* The exact present_value: future_value / (1 + rate) ** periods, for a
\* rate other than -1.
PresentValue(fv, rate, periods) == RDiv(fv, RPow(RAdd(One, rate), periods))

\* The whole part of np.log(arg) / np.log(base): the largest m with
\* base ** m <= arg, for arg >= 1 and base > 1.
RECURSIVE LogWhole(_, _, _)
LogWhole(arg, base, m) ==
    IF RLe(RPow(base, m + 1), arg) THEN LogWhole(arg, base, m + 1) ELSE m

FireMultiple == 25
ProgressUnguarded(current_assets, fire_number) ==
    IF fire_number = Zero THEN None
    ELSE RMul(RDiv(current_assets, fire_number), Hundred)

\* (current_assets / fire_number) * 100 if fire_number > 0 else 0
Progress(current_assets, fire_number) ==
    IF RGt(fire_number, Zero)
    THEN RMul(RDiv(current_assets, fire_number), Hundred)
    ELSE Zero

YearsToFireCompounded(additional_needed, monthly_savings, monthly_rate) ==
    [branch |-> "log",
     value |-> RDiv(Num(LogWhole(RAdd(One, RDiv(RMul(additional_needed, monthly_rate),
                                              monthly_savings)),
                                 RAdd(One, monthly_rate), 0)),
                    Num(12))]

YearsToFireInMonths(additional_needed, monthly_savings, monthly_rate) ==
    IF RGt(monthly_savings, Zero) /\ RGt(additional_needed, Zero)
    THEN [branch |-> "linear", value |-> RDiv(additional_needed, monthly_savings)]
    ELSE [branch |-> "none", value |-> Zero]

\* Lines 285-296.  In the logarithmic branch the months are irrational in
\* general and the model keeps their whole part.
YearsToFire(additional_needed, monthly_savings, monthly_rate) ==
    IF RGt(monthly_savings, Zero) /\ RGt(additional_needed, Zero)
    THEN IF RGt(monthly_rate, Zero)
         THEN YearsToFireCompounded(additional_needed, monthly_savings, monthly_rate)
         ELSE [branch |-> "linear",
               value |-> RDiv(additional_needed, RMul(monthly_savings, Num(12)))]
    ELSE [branch |-> "none", value |-> Zero]

CalculateFireMetrics(pl, p, t) ==
    LET annual_expenses == AnnualExpenses(p)
        fire_number == RMul(annual_expenses, Num(FireMultiple))
        years_to_retirement == pl.target_retirement_age - Age(p, t)
        current_assets == TotalAssets(p)
        additional_needed == RMax(Zero, RSub(fire_number, current_assets))
    IN  [fire_number |-> fire_number,
         coast_fire_number |->
             PresentValue(fire_number, pl.investment_return_rate, years_to_retirement),
         barista_fire_number |->
             RMul(RMul(annual_expenses, Q(7, 10)), Num(FireMultiple)),
         lean_fire_number |->
             RMul(RMul(annual_expenses, Q(6, 10)), Num(FireMultiple)),
         fat_fire_number |->
             RMul(RMul(annual_expenses, Q(3, 2)), Num(FireMultiple)),
         current_progress_percent |-> Progress(current_assets, fire_number),
         years_to_fire |->
             YearsToFire(additional_needed, p.monthly_savings,
                         RDiv(pl.investment_return_rate, Num(12))),
         monthly_savings_for_fire |-> p.monthly_savings]

-----------------------------------------------------------------------------
(* The Monte Carlo simulators.  np.random is one generator shared by the   *)
(* whole process: np.random.seed(42) resets it and np.random.normal draws  *)
(* from it and advances it.  The generator is deterministic, so its state  *)
(* is the seed it was last given and the number of draws made since.       *)

SeedValue == 42

\* The standard normal deviate the generator yields in a given state.
Deviates == <<Q(1, 2), Num(-1), Zero, One, Q(-1, 2), Num(2), Q(-3, 2)>>
StdNormal(r) == Deviates[((r.seed + r.pos) % Len(Deviates)) + 1]

\* np.random.normal(loc, scale) in generator state r.
Normal(loc, scale, r) == RAdd(loc, RMul(scale, StdNormal(r)))
Advance(r) == [r EXCEPT !.pos = @ + 1]

\* The generator before any call seeded it.
UnseededRng == [seed |-> 1, pos |-> 0]

\* np.random.seed(42)
SeedRngSkipped(r) == r
SeedRng(r) == [seed |-> SeedValue, pos |-> 0]

\* Python's list.sort() on floats.
RECURSIVE InsertSorted(_, _)
InsertSorted(x, s) ==
    IF s = <<>> THEN <<x>>
    ELSE IF RLe(x, Head(s)) THEN <<x>> \o s
    ELSE <<Head(s)>> \o InsertSorted(x, Tail(s))
RECURSIVE SortAscending(_)
SortAscending(s) ==
    IF s = <<>> THEN <<>> ELSE InsertSorted(Head(s), SortAscending(Tail(s)))

\* final_values.sort(): the list after the call.
ListSortSkipped(values) == values
ListSort(values) == SortAscending(values)

\* values[i] with Python's 0-based index.
At(values, i) == values[i + 1]

Callers == {"a", "b"}
IdleCall == [pc |-> "idle"]

\* The first argument of range(...) in the trial's inner loop.
TrialYears(c, pl, p, t, args) ==
    IF c.op = "monte_carlo_retirement_analysis"
    THEN pl.target_retirement_age - Age(p, t)
    ELSE args.years

\* Lines 213-214 resp. 202: the locals at the start of a trial.
TrialStart(c, p, args) ==
    IF c.op = "monte_carlo_retirement_analysis"
    THEN [c EXCEPT !.year = 0,
                   !.value = TotalAssets(p),
                   !.annual_contribution = RMul(p.monthly_savings, Num(12))]
    ELSE [c EXCEPT !.year = 0, !.value = args.initial_value]

\* Lines 220-228 resp. 205-207: one year of a trial, drawing from r.
TrialYear(c, r, pl, p, args) ==
    IF c.op = "monte_carlo_retirement_analysis"
    THEN LET annual_return_rate ==
                 Normal(pl.investment_return_rate, c.market_volatility, r)
             annual_return == RMul(c.value, annual_return_rate)
         IN  [c EXCEPT !.year = @ + 1,
                       !.value = RAdd(@, RAdd(c.annual_contribution, annual_return)),
                       !.annual_contribution =
                           RMul(@, RAdd(One, p.income_growth_rate))]
    ELSE LET annual_return_this_year ==
                 Normal(args.annual_return, args.volatility, r)
         IN  [c EXCEPT !.year = @ + 1,
                       !.value = RAdd(RMul(@, RAdd(One, annual_return_this_year)),
                                      args.annual_contribution)]

\* portfolio_value >= required_portfolio
MeetsRequirementNever(value, required_portfolio) == FALSE
MeetsRequirement(value, required_portfolio) == RGe(value, required_portfolio)

\* Lines 231-235 resp. 208: the end of a trial.
TrialEnd(c, pl, p) ==
    IF c.op = "monte_carlo_retirement_analysis"
    THEN [c EXCEPT !.trial = @ + 1,
                   !.success_count =
                       IF MeetsRequirement(c.value,
                                           CalculateRequiredPortfolioValue(pl, p))
                       THEN @ + 1 ELSE @,
                   !.final_values = Append(@, c.value)]
    ELSE [c EXCEPT !.trial = @ + 1, !.final_values = Append(@, c.value)]

\* Lines 237-247 resp. 210-215: what the call returns.  final_values is the
\* sorted list, which monte_carlo_retirement_analysis keeps to itself.
ResultOf(c, final_values, n, pl, p) ==
        IF c.op = "monte_carlo_retirement_analysis"
        THEN [success_rate |-> RDiv(Num(c.success_count), Num(c.simulations)),
              median_final_value |-> At(final_values, n \div 2),
              percentile_10 |-> At(final_values, Trunc(RMul(Num(n), Q(1, 10)))),
              percentile_90 |-> At(final_values, Trunc(RMul(Num(n), Q(9, 10)))),
              required_portfolio_value |-> CalculateRequiredPortfolioValue(pl, p),
              simulations_run |-> c.simulations,
              final_values |-> final_values]
        ELSE [final_values |-> final_values,
              median_value |-> At(final_values, n \div 2),
              percentile_90 |-> At(final_values, Trunc(RMul(Num(n), Q(1, 10))))]

MonteCarloResult(c, pl, p) ==
    LET Sorted[values \in {c.final_values}] == ListSort(values)
    IN  ResultOf(c, Sorted[c.final_values], Len(c.final_values), pl, p)

\* The locals of a call that has seeded the generator and not yet drawn.
CallStart(op, args) ==
    [pc |-> "sampling", op |-> op, simulations |-> args.simulations,
     market_volatility |-> args.volatility, trial |-> 0, year |-> 0,
     value |-> Zero, annual_contribution |-> Zero,
     success_count |-> 0, final_values |-> <<>>, disturbed |-> FALSE]

\* Trials whose inner loop is empty draw nothing: they all end at once.
RECURSIVE RunEmptyTrials(_, _, _, _)
RunEmptyTrials(c, pl, p, args) ==
    IF c.trial = c.simulations THEN c
    ELSE RunEmptyTrials(TrialEnd(TrialStart(c, p, args), pl, p), pl, p, args)

\* Every other call that has seeded and is still drawing now reads a
\* generator this caller has moved.
Disturb(m, p) ==
    [q \in Callers |->
        IF q # p /\ m[q].pc = "sampling"
        THEN [m[q] EXCEPT !.disturbed = TRUE] ELSE m[q]]

LogEntry(p, c, pl, pr) ==
    [caller |-> p, op |-> c.op, simulations |-> c.simulations,
     alone |-> ~c.disturbed, result |-> MonteCarloResult(c, pl, pr)]

\* A call up to and including its np.random.seed(42); with an empty inner
\* loop it runs to its return without drawing.
CallMonteCarlo(p, op) ==
    /\ mc[p].pc = "idle"
    /\ Len(mc_log) + Cardinality({q \in Callers : mc[q].pc # "idle"}) < MaxCalls
    /\ rng' = SeedRng(rng)
    /\ LET c == CallStart(op, mc_args)
       IN  IF TrialYears(c, plan, profile, today, mc_args) <= 0
           THEN LET d == RunEmptyTrials(c, plan, profile, mc_args)
                IN  /\ mc' = [Disturb(mc, p) EXCEPT ![p] = IdleCall]
                    /\ mc_log' = Append(mc_log, LogEntry(p, d, plan, profile))
           ELSE /\ mc' = [Disturb(mc, p) EXCEPT
                              ![p] = TrialStart(c, profile, mc_args)]
                /\ UNCHANGED mc_log
    /\ UNCHANGED <<mc_args, inputVars, calcVars, planVars, projVars, scenVars>>

\* One np.random.normal draw and the year it feeds; after the last year of
\* a trial the trial ends, and after the last trial the call returns.
SampleYear(p) ==
    /\ mc[p].pc = "sampling"
    /\ rng' = Advance(rng)
    /\ \E c \in {TrialYear(mc[p], rng, plan, profile, mc_args)} :
       \E ends \in {c.year = TrialYears(c, plan, profile, today, mc_args)} :
       \E d \in {IF ends THEN TrialEnd(c, plan, profile) ELSE c} :
           IF d.trial = d.simulations
           THEN /\ mc' = [Disturb(mc, p) EXCEPT ![p] = IdleCall]
                /\ mc_log' = Append(mc_log, LogEntry(p, d, plan, profile))
           ELSE /\ mc' = [Disturb(mc, p) EXCEPT
                              ![p] = IF ends
                                     THEN TrialStart(d, profile, mc_args) ELSE d]
                /\ UNCHANGED mc_log
    /\ UNCHANGED <<mc_args, inputVars, calcVars, planVars, projVars, scenVars>>

-----------------------------------------------------------------------------
(* ScenarioAnalyzer.  The three mappings of a profile are dict objects     *)
(* held by reference: replace() copies the references, dict.copy() and a   *)
(* dict comprehension allocate a new object.                               *)

DictFields == {"investment_accounts", "retirement_accounts", "debts"}

\* The profile with its mappings read through the heap.
Deref(p, h) ==
    [p EXCEPT !.investment_accounts = h[@],
              !.retirement_accounts = h[@],
              !.debts = h[@]]

\* The dict objects of the base profile; the objects a finished call
\* allocated are unreachable when the next call starts.
BaseRefs == {base_profile[f] : f \in DictFields}
Live(h) == [r \in BaseRefs |-> h[r]]
Alloc(h, r, d) == [x \in DOMAIN h \cup {r} |-> IF x = r THEN d ELSE h[x]]

\* dict.copy(): the reference of the returned object.
CopyRefAliased(r, fresh) == r
CopyRef(r, fresh) == fresh

\* del d[k] for a key of d.
DictDeleteNone(d, k) == d
DictDelete(d, k) == [x \in DOMAIN d \ {k} |-> d[x]]

\* debt_name in self.base_profile.debts
DebtFoundAlways(debt_name, d) == TRUE
DebtFound(debt_name, d) == debt_name \in DOMAIN d

\* {k: v * (1 + crash_percent) for k, v in d.items()}
CrashedAccountsKept(d, crash_percent) == d
CrashedAccounts(d, crash_percent) ==
    [k \in DOMAIN d |-> RMul(d[k], RAdd(One, crash_percent))]

\* int(log(arg) / log(base) / 12): the whole years k with
\* base ** (12 * k) <= arg, for arg >= 1 and base > 1.
RECURSIVE LogYears(_, _, _)
LogYears(arg, base, k) ==
    IF RLe(RPow(base, 12 * (k + 1)), arg) THEN LogYears(arg, base, k + 1) ELSE k

\* Lines 297-310: years to financial independence.
YearsToFi(pl, p) ==
    LET fi_target == RDiv(AnnualExpenses(p), Q(1, 25))
        additional_needed == RSub(fi_target, TotalAssets(p))
        monthly_rate == RDiv(pl.investment_return_rate, Num(12))
    IN  IF RLt(TotalAssets(p), fi_target) /\ RGt(p.monthly_savings, Zero)
        THEN IF RGt(monthly_rate, Zero)
             THEN LogYears(RAdd(One, RDiv(RMul(additional_needed, monthly_rate),
                                          p.monthly_savings)),
                           RAdd(One, monthly_rate), 0)
             ELSE Trunc(RDiv(additional_needed, RMul(p.monthly_savings, Num(12))))
        ELSE 0

\* Lines 276-295: the projected portfolio value at retirement.
ProjectedPortfolio(pl, p, t) ==
    LET years_to_retirement == pl.target_retirement_age - Age(p, t)
    IN  IF years_to_retirement > 0
        THEN RAdd(FutureValue(TotalAssets(p), pl.investment_return_rate,
                              years_to_retirement).value,
                  FutureValueAnnuity(p.monthly_savings,
                                     RDiv(pl.investment_return_rate, Num(12)),
                                     years_to_retirement * 12))
        ELSE TotalAssets(p)

\* _calculate_scenario_result on a profile whose mappings are already read.
ScenarioResult(scenario_name, p, changes, pl, t) ==
    [scenario_name |-> scenario_name,
     retirement_readiness_score |-> CalculateRetirementReadinessScore(pl, p, t),
     required_monthly_savings |-> CalculateMonthlySavingsNeeded(pl, p, t),
     projected_portfolio_value |-> ProjectedPortfolio(pl, p, t),
     years_to_fi |-> YearsToFi(pl, p),
     changes_applied |-> changes]

\* What a call leaves behind: the exception it raised or the result it
\* returned, with the profile and plan it evaluated.
Raised(method, arg, error) ==
    [method |-> method, arg |-> <<arg>>, status |-> error,
     returned |-> <<>>, evaluated |-> <<>>]
Returned(method, arg, scenario_name, prof, changes, pl, h, t) ==
    [method |-> method, arg |-> <<arg>>, status |-> "ok",
     returned |-> <<ScenarioResult(scenario_name, Deref(prof, h), changes, pl, t)>>,
     evaluated |-> <<[profile |-> Deref(prof, h),
                      refs |-> [f \in DictFields |-> prof[f]],
                      plan |-> pl]>>]

EvaluateReplacedUnderLaterPlan(method, arg, scenario_name, prof, changes, h, t) ==
    Returned(method, arg, scenario_name, prof, changes,
             [base_plan EXCEPT !.target_retirement_age = @ + 1], h, t)

EvaluateReplacedUnvalidated(method, arg, scenario_name, prof, changes, h, t) ==
    Returned(method, arg, scenario_name, prof, changes, base_plan, h, t)

\* replace(self.base_profile, ...) runs __init__ and so __post_init__ on
\* the new profile; the scenario is evaluated only when that passes.
EvaluateReplaced(method, arg, scenario_name, prof, changes, h, t) ==
    IF PostInit(Deref(prof, h)) # "ok"
    THEN Raised(method, arg, PostInit(Deref(prof, h)))
    ELSE Returned(method, arg, scenario_name, prof, changes, base_plan, h, t)

Finish(outcome, h) ==
    /\ scen_ret' = outcome
    /\ heap' = h
    /\ scen_hist' = [scen_hist EXCEPT !.failed = @ \/ outcome.status # "ok",
                                      !.at = today]
    /\ UNCHANGED <<base_profile, base_plan, inputVars, calcVars, planVars,
                   projVars, mcVars>>

AnalyzeIncomeChange(income_change_percent) ==
    LET modified_profile ==
            [base_profile EXCEPT
                !.annual_income = RMul(@, RAdd(One, income_change_percent))]
    IN  Finish(EvaluateReplaced("analyze_income_change", income_change_percent,
                   "Income Change", modified_profile,
                   <<"income_change_percent", income_change_percent>>,
                   Live(heap), today),
               Live(heap))

AnalyzeSavingsRateChange(new_savings_rate) ==
    LET new_monthly_savings ==
            RDiv(RMul(base_profile.annual_income, new_savings_rate), Num(12))
        modified_profile ==
            [base_profile EXCEPT !.monthly_savings = new_monthly_savings]
    IN  Finish(EvaluateReplaced("analyze_savings_rate_change", new_savings_rate,
                   "Savings Rate Change", modified_profile,
                   <<"new_savings_rate", new_savings_rate>>,
                   Live(heap), today),
               Live(heap))

AnalyzeRetirementAgeChange(new_retirement_age) ==
    LET modified_plan ==
            [base_plan EXCEPT !.target_retirement_age = new_retirement_age]
    IN  Finish(Returned("analyze_retirement_age_change", new_retirement_age,
                   "Retirement Age Change", base_profile,
                   <<"new_retirement_age", new_retirement_age>>,
                   modified_plan, Live(heap), today),
               Live(heap))

AnalyzeReturnRateChange(new_return_rate) ==
    LET modified_plan ==
            [base_plan EXCEPT !.investment_return_rate = new_return_rate]
    IN  Finish(Returned("analyze_return_rate_change", new_return_rate,
                   "Return Rate Change", base_profile,
                   <<"new_return_rate", new_return_rate>>,
                   modified_plan, Live(heap), today),
               Live(heap))

AnalyzeExpenseChange(expense_change_percent) ==
    LET modified_profile ==
            [base_profile EXCEPT
                !.monthly_expenses = RMul(@, RAdd(One, expense_change_percent))]
    IN  Finish(EvaluateReplaced("analyze_expense_change", expense_change_percent,
                   "Expense Change", modified_profile,
                   <<"expense_change_percent", expense_change_percent>>,
                   Live(heap), today),
               Live(heap))

AnalyzeDebtPayoff(debt_name) ==
    IF ~DebtFound(debt_name, heap[base_profile.debts])
    THEN Finish(Raised("analyze_debt_payoff", debt_name, "ValueError"), Live(heap))
    ELSE LET modified_debts == CopyRef(base_profile.debts, "modified_debts")
             copied == Alloc(Live(heap), modified_debts, heap[base_profile.debts])
             deleted == [copied EXCEPT ![modified_debts] = DictDelete(@, debt_name)]
             modified_profile == [base_profile EXCEPT !.debts = modified_debts]
         IN  Finish(EvaluateReplaced("analyze_debt_payoff", debt_name,
                        "Debt Payoff", modified_profile,
                        <<"debt_paid_off", debt_name>>, deleted, today),
                    deleted)

AnalyzeMarketCrash(crash_percent) ==
    LET h == Alloc(Alloc(Live(heap), "crashed_investment_accounts",
                         CrashedAccounts(heap[base_profile.investment_accounts],
                                         crash_percent)),
                   "crashed_retirement_accounts",
                   CrashedAccounts(heap[base_profile.retirement_accounts],
                                   crash_percent))
        modified_profile ==
            [base_profile EXCEPT
                !.current_savings = RMul(@, RAdd(One, crash_percent)),
                !.investment_accounts = "crashed_investment_accounts",
                !.retirement_accounts = "crashed_retirement_accounts"]
        outcome == EvaluateReplaced("analyze_market_crash", crash_percent,
                       "Market Crash", modified_profile,
                       <<"crash_percent", crash_percent>>, h, today)
    IN  Finish(outcome, IF outcome.status = "ok" THEN h ELSE Live(heap))

\* max(scenarios, key=...) and min(scenarios, key=...): the first element
\* with the largest (smallest) value of the field; s is not empty.
RECURSIVE MaxScan(_, _, _, _)
MaxScan(s, field, best, i) ==
    IF i > Len(s) THEN best
    ELSE MaxScan(s, field, IF RGt(s[i][field], best[field]) THEN s[i] ELSE best,
                 i + 1)
MaxByKey(s, field) == MaxScan(s, field, s[1], 2)

RECURSIVE MinScan(_, _, _, _)
MinScan(s, field, best, i) ==
    IF i > Len(s) THEN best
    ELSE MinScan(s, field, IF RLt(s[i][field], best[field]) THEN s[i] ELSE best,
                 i + 1)
MinByKeyFirst(s, field) == s[1]
MinByKey(s, field) == MinScan(s, field, s[1], 2)

\* not scenarios
IsEmptyListNever(scenarios) == FALSE
IsEmptyList(scenarios) == scenarios = <<>>

\* Lines 220-249: the comparison of a list that is not empty.
Comparison(scenarios) ==
    LET best_score == MaxByKey(scenarios, "retirement_readiness_score")
        worst_score == MinByKey(scenarios, "retirement_readiness_score")
        lowest_savings_needed == MinByKey(scenarios, "required_monthly_savings")
        highest_savings_needed == MaxByKey(scenarios, "required_monthly_savings")
    IN  [best_scenario |->
            [name |-> best_score.scenario_name,
             score |-> best_score.retirement_readiness_score,
             changes |-> best_score.changes_applied],
         worst_scenario |->
            [name |-> worst_score.scenario_name,
             score |-> worst_score.retirement_readiness_score,
             changes |-> worst_score.changes_applied],
         lowest_savings_needed |->
            [name |-> lowest_savings_needed.scenario_name,
             monthly_savings |-> lowest_savings_needed.required_monthly_savings,
             changes |-> lowest_savings_needed.changes_applied],
         highest_savings_needed |->
            [name |-> highest_savings_needed.scenario_name,
             monthly_savings |-> highest_savings_needed.required_monthly_savings,
             changes |-> highest_savings_needed.changes_applied],
         score_range |-> RSub(best_score.retirement_readiness_score,
                              worst_score.retirement_readiness_score)]

\* compare_scenarios(scenarios), called on the list held in scen_ret.arg.
\* max() of an empty list is Python's ValueError.
CompareScenarios ==
    /\ scen_ret.method = "compare_scenarios" /\ scen_ret.status = "pending"
    /\ LET scenarios == scen_ret.arg[1]
       IN  Finish([scen_ret EXCEPT
                      !.status = IF IsEmptyList(scenarios) THEN "ok"
                                 ELSE IF scenarios = <<>> THEN "ValueError"
                                 ELSE "ok",
                      !.returned = IF IsEmptyList(scenarios) THEN <<EmptyDict>>
                                   ELSE IF scenarios = <<>> THEN <<>>
                                   ELSE <<Comparison(scenarios)>>],
                  Live(heap))

-----------------------------------------------------------------------------
(* Input sets and idle states.                                                 *)


Today == <<2024, 6, 15>>

\* Ages 63, 64 and 65 on Today.
BirthDates == {<<1960, 12, 31>>, <<1960, 1, 1>>, <<1959, 6, 15>>}
TargetAges == 62..(63 + MaxYears)

NoCalc == [op |-> "none"]
NoOut == [status |-> "none", value |-> None]
CalcIdle == calc_in = NoCalc /\ calc_out = NoOut
PlanIdle == plan_out = [op |-> "none", value |-> None]
InputsIdle ==
    /\ today = Today /\ profile = None /\ plan = None /\ reads = <<>> /\ ctor = None
    /\ portfolio = None
NoFrame == [method |-> "none"]
NoProjRet == [projection |-> None, withdrawal |-> None]
ProjIdle == pc = "idle" /\ frame = NoFrame /\ proj_ret = NoProjRet
McIdle ==
    /\ rng = UnseededRng
    /\ mc = [p \in Callers |-> IdleCall]
    /\ mc_args = None
    /\ mc_log = <<>>
ScenIdle ==
    /\ heap = None /\ base_profile = None /\ base_plan = None
    /\ scen_ret = None /\ scen_hist = None

-----------------------------------------------------------------------------
(* SpecCalc: calls of the FinancialCalculator primitives.                  *)

CalcPVs == {Num(-1000), Num(-1), Zero, One, Num(1000)}
CalcRates == {Zero, Q(1, 4), Q(-1, 4), Q(1, 10)}
CalcPeriods == (-MaxPeriods)..MaxPeriods

InitCalc ==
    /\ calc_in \in [op : {"future_value"}, present_value : CalcPVs,
                     rate : CalcRates, periods : CalcPeriods]
    /\ calc_out = [status |-> "pending", value |-> None]
    /\ InputsIdle /\ PlanIdle /\ ProjIdle /\ McIdle /\ ScenIdle

CallFutureValue ==
    /\ calc_in.op = "future_value"
    /\ calc_out.status = "pending"
    /\ calc_out' = FutureValue(calc_in.present_value, calc_in.rate, calc_in.periods)
    /\ UNCHANGED <<calc_in, inputVars, planVars, projVars, mcVars, scenVars>>

NextCalc == CallFutureValue

SpecCalc == InitCalc /\ [][NextCalc]_vars

\* C4: future_value raises ValueError, and returns no value, whenever the
\* present value is negative or the number of periods is negative.
C4_NegativeArgumentRaises ==
    (/\ calc_in.op = "future_value"
     /\ calc_out.status # "pending"
     /\ (RLt(calc_in.present_value, Zero) \/ calc_in.periods < 0))
        => calc_out.status = "ValueError"

-----------------------------------------------------------------------------
(* SpecPlan: calls of the RetirementPlan methods on a profile.             *)

PlanProfiles ==
    [name : {"Test User"}, birth_date : BirthDates, retirement_age : {65},
     annual_income : {Zero, Num(60000)}, income_growth_rate : {Q(3, 100)},
     monthly_expenses : {Num(4000)}, expense_growth_rate : {Q(1, 40)},
     current_savings : {Zero, Num(100000)},
     monthly_savings : {Zero, Num(1000)},
     investment_accounts : {EmptyDict, [k \in {"brokerage"} |-> Num(50000)]},
     retirement_accounts : {EmptyDict, [k \in {"401k"} |-> Num(200000)]},
     debts : {EmptyDict}]

PlanPlans ==
    [target_retirement_age : TargetAges,
     target_annual_income : {Zero, Num(40000)},
     target_income_replacement_ratio : {Q(4, 5)},
     inflation_rate : {Q(1, 40)},
     investment_return_rate : {Zero, Q(1, 2), Num(12)},
     withdrawal_rate : {Q(1, 25)},
     estimated_social_security : {None, Zero, Num(20000), Num(50000)}]

\* The annuity factor (1 + rate/12) ** (12 * years) is evaluated in 32-bit
\* integers: it is within range for a monthly rate of 1 over one year.
AnnuityEvaluable(pl, p, t) ==
    (/\ RGt(pl.investment_return_rate, Zero)
     /\ RGt(p.monthly_savings, Zero)
     /\ pl.target_retirement_age - Age(p, t) > 0)
        => (/\ pl.investment_return_rate = Num(12)
            /\ pl.target_retirement_age - Age(p, t) = 1)

InitPlan ==
    /\ today = Today /\ reads = <<>> /\ ctor = None /\ portfolio = None
    /\ profile \in PlanProfiles
    /\ PostInit(profile) = "ok"
    /\ plan \in PlanPlans
    /\ AnnuityEvaluable(plan, profile, today)
    /\ plan_out = [op |-> "pending", value |-> None]
    /\ CalcIdle /\ ProjIdle /\ McIdle /\ ScenIdle

CallReadinessScore ==
    /\ plan_out.op = "pending"
    /\ plan_out' = [op |-> "calculate_retirement_readiness_score",
                    value |-> CalculateRetirementReadinessScore(plan, profile, today)]
    /\ UNCHANGED <<inputVars, calcVars, projVars, mcVars, scenVars>>

NextPlan == CallReadinessScore

SpecPlan == InitPlan /\ [][NextPlan]_vars

\* C3: the readiness score lies in [0, 100] for every profile and plan,
\* including a target retirement age at or below the current age and a
\* Social Security estimate above the target income.
C3_ScoreWithinZeroAndHundred ==
    plan_out.op = "calculate_retirement_readiness_score"
        => RLe(Zero, plan_out.value) /\ RLe(plan_out.value, Hundred)

-----------------------------------------------------------------------------
(* SpecProj: one call of a RetirementProjector method.                     *)

ProjProfiles ==
    [name : {"Test User"}, birth_date : BirthDates, retirement_age : {65},
     annual_income : {Num(60000)}, income_growth_rate : {Q(1, 2)},
     monthly_expenses : {Zero, Num(100), Num(4000)},
     expense_growth_rate : {Q(1, 2)},
     current_savings : {Zero, Num(4800)},
     monthly_savings : {Zero, Num(1000)},
     investment_accounts : {EmptyDict},
     retirement_accounts : {EmptyDict, [k \in {"401k"} |-> Num(200000)]},
     debts : {[k \in {"mortgage"} |-> Num(150000)]}]

ProjPlans ==
    [target_retirement_age : TargetAges,
     target_annual_income : {Num(40000)},
     target_income_replacement_ratio : {Q(4, 5)},
     inflation_rate : {Zero, Q(1, 2)},
     investment_return_rate : {Zero, Q(1, 2), Q(-1, 2)},
     withdrawal_rate : {Q(1, 25)},
     estimated_social_security : {None, Num(20000)}]

InitProj ==
    /\ today = Today /\ reads = <<>> /\ ctor = None /\ portfolio = None
    /\ profile \in ProjProfiles
    /\ PostInit(profile) = "ok"
    /\ plan \in ProjPlans
    /\ ProjIdle /\ CalcIdle /\ PlanIdle /\ McIdle /\ ScenIdle

NextProj ==
    \/ CallProjectToRetirement
    \/ \E h \in 0..MaxHorizon : CallProjectRetirementWithdrawal(h)
    \/ AccumulationStep
    \/ AccumulationReturn
    \/ WithdrawalStep
    \/ WithdrawalReturn

SpecProj == InitProj /\ [][NextProj]_vars

WithdrawalRunning ==
    frame.method = "project_retirement_withdrawal" /\ pc \in {"withdrawal", "returned"}
WithdrawalReturned ==
    frame.method = "project_retirement_withdrawal" /\ pc = "returned"

\* C1 as stated: the withdrawal rows end at the first year whose portfolio is
\* <= 0; that row is the last and reports 0, every earlier row reports a
\* value > 0, a depletion year always leaves fewer than h rows, and without
\* depletion there are exactly h rows.
C1_DepletionLeavesFewerThanHorizonRows ==
    WithdrawalReturned =>
        LET W == proj_ret.withdrawal
            n == Len(W)
            h == frame.years_in_retirement
            depleted == n > 0 /\ RLe(frame.portfolio_value, Zero)
        IN  /\ \A i \in 1..(n - 1) : RGt(W[i].portfolio_value, Zero)
            /\ depleted => W[n].portfolio_value = Zero /\ n < h
            /\ ~depleted => n = h

\* C1 as amended: the rows end at the first year whose portfolio is <= 0;
\* that row is the last and reports 0, every earlier row reports a value > 0,
\* and a row that is not a depletion row reports the portfolio itself.  A
\* depletion year leaves at most h rows (exactly h when the depletion falls
\* in the last requested year), and without depletion there are exactly h.
C1_DepletionEndsTheRows ==
    WithdrawalRunning =>
        LET W == frame.withdrawal_projections
            n == Len(W)
            h == frame.years_in_retirement
            depleted == n > 0 /\ RLe(frame.portfolio_value, Zero)
        IN  /\ n <= h
            /\ \A i \in 1..(n - 1) : RGt(W[i].portfolio_value, Zero)
            /\ depleted => W[n].portfolio_value = Zero
            /\ (n > 0 /\ ~depleted) => W[n].portfolio_value = frame.portfolio_value
            /\ pc = "withdrawal" => ~depleted
            /\ pc = "returned" =>
                  /\ proj_ret.withdrawal = W
                  /\ ~depleted => n = h

\* A portfolio that goes negative in the third of four requested years.
C1_Witness ==
    /\ WithdrawalReturned
    /\ Len(proj_ret.withdrawal) >= 2
    /\ Len(proj_ret.withdrawal) < frame.years_in_retirement
    /\ RLt(frame.portfolio_value, Zero)
    /\ proj_ret.withdrawal[Len(proj_ret.withdrawal)].portfolio_value = Zero

ProjectionReturned == pc \in {"withdrawal", "returned"}

RowsAreConsecutiveFrom(rows, age) ==
    \A i \in 1..Len(rows) :
        rows[i].age = age + i - 1 /\ rows[i].year = BaseYear + i - 1

\* C2 as stated: project_to_retirement emits one row per age from the
\* current age through the target retirement age (target - age + 1 rows),
\* and exactly one row, of year offset 0, when target <= current age.
C2_OneRowWhenTargetNotAboveAge ==
    ProjectionReturned =>
        LET rows == proj_ret.projection.yearly_projections
            age == Age(profile, today)
            target == plan.target_retirement_age
        IN  /\ RowsAreConsecutiveFrom(rows, age)
            /\ target >= age => Len(rows) = target - age + 1
            /\ target <= age => Len(rows) = 1

\* C2 as amended: target - age + 1 rows, for the ages from the current age
\* through the target age, when target >= current age (one row of year
\* offset 0 when they are equal), and no row when target < current age.
C2_OneRowPerAgeThroughTarget ==
    ProjectionReturned =>
        LET rows == proj_ret.projection.yearly_projections
            age == Age(profile, today)
            target == plan.target_retirement_age
        IN  /\ RowsAreConsecutiveFrom(rows, age)
            /\ target >= age => Len(rows) = target - age + 1
            /\ target = age => Len(rows) = 1 /\ rows[1].year = BaseYear
            /\ target < age => Len(rows) = 0

C2_Witness ==
    /\ pc = "returned"
    /\ frame.method = "project_to_retirement"
    /\ plan.target_retirement_age = Age(profile, today) + 2
    /\ Len(proj_ret.projection.yearly_projections) = 3

\* math.floor of a rational.
Floor(a) == a[1] \div a[2]

\* The annual expenses less the Social Security estimate, when one is set.
NetOfSocialSecurity(expenses, pl) ==
    IF Truthy(pl.estimated_social_security)
    THEN RSub(expenses, pl.estimated_social_security) ELSE expenses

FundedYearsAre(net) ==
    proj_ret.projection.years_of_retirement_funded =
        IF RGt(net, Zero)
        THEN Floor(RDiv(proj_ret.projection.final_portfolio_value, net))
        ELSE 0

\* C17 as stated: years_of_retirement_funded is floor(final portfolio / N)
\* with N the annual expenses of the profile as stored (12 x monthly
\* expenses, not grown) less the Social Security estimate, and 0 for N <= 0.
C17_FundedYearsUseStoredExpenses ==
    ProjectionReturned
        => FundedYearsAre(NetOfSocialSecurity(AnnualExpenses(profile), plan))

\* C17 as amended: N is the annual expenses grown by the expense growth rate
\* once for every accumulation row after the first, less the Social
\* Security estimate; years_of_retirement_funded is floor(final portfolio
\* / N), and 0 for N <= 0.
C17_FundedYearsUseGrownExpenses ==
    ProjectionReturned
        => LET rows == Len(proj_ret.projection.yearly_projections)
               grown == RMul(AnnualExpenses(profile),
                             RPow(RAdd(One, profile.expense_growth_rate),
                                  IF rows > 1 THEN rows - 1 ELSE 0))
           IN  FundedYearsAre(NetOfSocialSecurity(grown, plan))

\* A projection of three rows whose grown expenses fund fewer years than the
\* stored expenses would.
C17_Witness ==
    /\ ProjectionReturned
    /\ Len(proj_ret.projection.yearly_projections) = 3
    /\ proj_ret.projection.years_of_retirement_funded > 0
    /\ ~FundedYearsAre(NetOfSocialSecurity(AnnualExpenses(profile), plan))

\* C27: total_contributions is the sum of the contributions added to the
\* portfolio and total_returns the sum of the yearly returns, so that
\* final_portfolio_value = initial total assets + total_contributions +
\* total_returns, and each row's annual_contribution is the amount added
\* to the portfolio in that row's year.
C27_TotalsAccountForThePortfolio ==
    ProjectionReturned
        => LET P == proj_ret.projection
               rows == P.yearly_projections
           IN  /\ P.final_portfolio_value =
                      RAdd(TotalAssets(profile),
                           RAdd(P.total_contributions, P.total_returns))
               /\ \A i \in 1..Len(rows) :
                      rows[i].portfolio_value =
                          RAdd(IF i = 1 THEN TotalAssets(profile)
                               ELSE rows[i - 1].portfolio_value,
                               RAdd(rows[i].annual_contribution,
                                    rows[i].annual_return))

\* C28: in both projections each row's age and year are one more than the
\* previous row's; the first accumulation row has the profile's current
\* age, the last accumulation row has the target retirement age, and the
\* first withdrawal row has the target retirement age.
C28_RowsAreChronological ==
    /\ ProjectionReturned
          => LET rows == proj_ret.projection.yearly_projections
             IN  /\ \A i \in 2..Len(rows) :
                        /\ rows[i].age = rows[i - 1].age + 1
                        /\ rows[i].year = rows[i - 1].year + 1
                 /\ Len(rows) > 0
                        => /\ rows[1].age = Age(profile, today)
                           /\ rows[Len(rows)].age = plan.target_retirement_age
    /\ WithdrawalRunning
          => LET W == frame.withdrawal_projections
             IN  /\ \A i \in 2..Len(W) :
                        /\ W[i].age = W[i - 1].age + 1
                        /\ W[i].year = W[i - 1].year + 1
                 /\ Len(W) > 0 => W[1].age = plan.target_retirement_age
                 /\ pc = "returned" => proj_ret.withdrawal = W

\* A withdrawal projection of at least two rows after an accumulation of
\* at least two rows.
C28_Witness ==
    /\ WithdrawalReturned
    /\ Len(proj_ret.withdrawal) >= 2
    /\ Len(proj_ret.projection.yearly_projections) >= 2
    /\ proj_ret.withdrawal[1].age = plan.target_retirement_age
    /\ proj_ret.withdrawal[2].age = plan.target_retirement_age + 1

-----------------------------------------------------------------------------
(* SpecMC: Monte Carlo calls of two callers, interleaved at the calls into *)
(* np.random.                                                              *)

McProfiles ==
    [name : {"Test User"}, birth_date : {<<1960, 1, 1>>}, retirement_age : {65},
     annual_income : {Num(60000)}, income_growth_rate : {Q(1, 2)},
     monthly_expenses : {Num(4000)}, expense_growth_rate : {Q(1, 2)},
     current_savings : {Num(4800)}, monthly_savings : {Num(1000)},
     investment_accounts : {EmptyDict},
     retirement_accounts : {[k \in {"401k"} |-> Num(200000)]},
     debts : {EmptyDict}]

McPlans ==
    [target_retirement_age : {64, 65, 66},
     target_annual_income : {Num(40000)},
     target_income_replacement_ratio : {Q(4, 5)},
     inflation_rate : {Q(1, 40)},
     investment_return_rate : {Q(1, 2)},
     withdrawal_rate : {Q(1, 25)},
     estimated_social_security : {Num(20000)}]

\* simulations and volatility (market_volatility) go to both operations,
\* the rest to monte_carlo_projection.
McArgs ==
    [simulations : 1..MaxSims, volatility : {Q(1, 2)},
     initial_value : {Num(10000)}, annual_return : {Q(1, 2)},
     years : {2}, annual_contribution : {Num(1000)}]

McOps == {"monte_carlo_retirement_analysis", "monte_carlo_projection"}

InitMC ==
    /\ today = Today /\ reads = <<>> /\ ctor = None /\ portfolio = None
    /\ profile \in McProfiles
    /\ plan \in McPlans
    /\ rng = UnseededRng
    /\ mc = [p \in Callers |-> IdleCall]
    /\ mc_args \in McArgs
    /\ mc_log = <<>>
    /\ CalcIdle /\ PlanIdle /\ ProjIdle /\ ScenIdle

NextMC ==
    \/ \E p \in Callers, op \in McOps : CallMonteCarlo(p, op)
    \/ \E p \in Callers : SampleYear(p)

SpecMC == InitMC /\ [][NextMC]_vars

\* SpecMCSeq: the same calls made by one caller, one after the other.
NextMCSeq ==
    \/ \E op \in McOps : CallMonteCarlo("a", op)
    \/ SampleYear("a")

SpecMCSeq == InitMC /\ [][NextMCSeq]_vars

\* The profile, the plan and the arguments are those of the behaviour.
SameCall(r1, r2) == r1.op = r2.op /\ r1.simulations = r2.simulations

\* C5: Monte Carlo calls share no mutable state, so a call whose seeding and
\* sampling steps interleave with another call's returns exactly what the
\* same call returns when it runs alone.
C5_InterleavedCallReturnsWhatItReturnsAlone ==
    \A i, j \in 1..Len(mc_log) :
        (SameCall(mc_log[i], mc_log[j]) /\ mc_log[j].alone)
            => mc_log[i].result = mc_log[j].result

\* C6: two separate runs of the same Monte Carlo operation with the same
\* inputs, neither overlapping another call's seeding or sampling, return
\* identical results (success rate, median, percentiles, sorted final
\* values), whatever calls were made before or between them.
C6_SequentialRunsAreReproducible ==
    \A i, j \in 1..Len(mc_log) :
        (SameCall(mc_log[i], mc_log[j]) /\ mc_log[i].alone /\ mc_log[j].alone)
            => mc_log[i].result = mc_log[j].result

\* Two runs of the same call with a run of the other operation between
\* them, each of two trials with different outcomes.
C6_Witness ==
    \E i, j \in 1..Len(mc_log) :
        /\ i + 1 < j
        /\ SameCall(mc_log[i], mc_log[j])
        /\ mc_log[i + 1].op # mc_log[i].op
        /\ mc_log[i].alone /\ mc_log[j].alone
        /\ mc_log[i].simulations >= 2
        /\ mc_log[i].result.final_values[1] # mc_log[i].result.final_values[2]

Analyses == {i \in 1..Len(mc_log) : mc_log[i].op = "monte_carlo_retirement_analysis"}
Projections == {i \in 1..Len(mc_log) : mc_log[i].op = "monte_carlo_projection"}
IsAscending(values) ==
    \A i \in 1..(Len(values) - 1) : RLe(values[i], values[i + 1])

\* C18: in monte_carlo_retirement_analysis with N >= 1 simulations a trial
\* is a success exactly when its ending portfolio is >= the required
\* portfolio value of the plan for the profile, and success_rate is the
\* number of successful trials over N, a value in [0, 1].
C18_SuccessRateIsSuccessesOverTrials ==
    \A i \in Analyses :
        LET r == mc_log[i].result
            successes ==
                Cardinality({k \in 1..Len(r.final_values) :
                    RGe(r.final_values[k],
                        CalculateRequiredPortfolioValue(plan, profile))})
        IN  /\ Len(r.final_values) = r.simulations_run
            /\ r.success_rate = RDiv(Num(successes), Num(r.simulations_run))
            /\ RLe(Zero, r.success_rate) /\ RLe(r.success_rate, One)

\* An analysis of two trials of which exactly one reaches the requirement.
C18_Witness ==
    \E i \in Analyses :
        /\ mc_log[i].result.simulations_run = 2
        /\ mc_log[i].result.success_rate = Q(1, 2)

-----------------------------------------------------------------------------
(* SpecScen: scenario operations on one ScenarioAnalyzer, in any order.    *)

ScenDebts ==
    {EmptyDict,
     [k \in {"credit_card"} |-> Num(5000)],
     [k \in {"credit_card", "mortgage"} |->
         IF k = "mortgage" THEN Num(150000) ELSE Num(5000)]}

\* The mappings of the base profile, before they are placed on the heap.
ScenProfiles ==
    [name : {"Test User"}, birth_date : {<<1960, 1, 1>>}, retirement_age : {65},
     annual_income : {Num(60000)}, income_growth_rate : {Q(3, 100)},
     monthly_expenses : {Num(4000)}, expense_growth_rate : {Q(1, 40)},
     current_savings : {Zero, Num(10000)},
     monthly_savings : {Zero, Num(500)},
     investment_accounts : {EmptyDict, [k \in {"brokerage"} |-> Num(50000)]},
     retirement_accounts : {[k \in {"401k", "ira"} |->
                                IF k = "ira" THEN Num(30000) ELSE Num(200000)]},
     debts : ScenDebts]

ScenPlans ==
    [target_retirement_age : {64, 65},
     target_annual_income : {Num(40000)},
     target_income_replacement_ratio : {Q(4, 5)},
     inflation_rate : {Q(1, 40)},
     investment_return_rate : {Zero},
     withdrawal_rate : {Q(1, 25)},
     estimated_social_security : {None, Num(20000)}]

IncomeChanges == {Q(1, 5), Q(-1, 2), Q(-3, 2)}
SavingsRates == {Zero, Q(1, 5)}
RetirementAges == {63, 66}
\* A monthly rate of 1 keeps (1 + rate / 12) ** 12 within 32-bit integers.
ReturnRates == {Zero, Num(12)}
ExpenseChanges == {Q(1, 2), Q(-3, 2)}
DebtNames == {"credit_card", "mortgage", "student_loan"}
CrashPercents == {Q(-3, 10), Q(-1, 2), Q(-3, 2)}

\* ScenarioAnalyzer(base_profile, base_plan) on a validated profile.
InitScen ==
    /\ today = Today /\ reads = <<>> /\ ctor = None /\ portfolio = None
    /\ \E p \in ScenProfiles, pl \in ScenPlans :
        /\ PostInit(p) = "ok"
        /\ heap = [r \in DictFields |-> p[r]]
        /\ base_profile = [p EXCEPT !.investment_accounts = "investment_accounts",
                                    !.retirement_accounts = "retirement_accounts",
                                    !.debts = "debts"]
        /\ base_plan = pl
        /\ scen_hist = [profile |-> p, plan |-> pl, failed |-> FALSE,
                        at |-> None]
    /\ scen_ret = [method |-> "none", arg |-> <<>>, status |-> "none",
                   returned |-> <<>>, evaluated |-> <<>>]
    /\ profile = None /\ plan = None
    /\ CalcIdle /\ PlanIdle /\ ProjIdle /\ McIdle

NextScen ==
    \/ \E x \in IncomeChanges : AnalyzeIncomeChange(x)
    \/ \E x \in SavingsRates : AnalyzeSavingsRateChange(x)
    \/ \E x \in RetirementAges : AnalyzeRetirementAgeChange(x)
    \/ \E x \in ReturnRates : AnalyzeReturnRateChange(x)
    \/ \E x \in ExpenseChanges : AnalyzeExpenseChange(x)
    \/ \E x \in DebtNames : AnalyzeDebtPayoff(x)
    \/ \E x \in CrashPercents : AnalyzeMarketCrash(x)

SpecScen == InitScen /\ [][NextScen]_vars

BaseNow == Deref(base_profile, heap)
PaidOff == scen_ret.method = "analyze_debt_payoff"
Crashed == scen_ret.method = "analyze_market_crash"
Evaluated == scen_ret.evaluated[1]

\* C7: after any sequence of scenario operations, failed ones included,
\* the base profile and the base plan equal field for field what they were
\* when the analyzer was built, the contents of the three mappings included.
C7_BaseProfileAndPlanUnchanged ==
    /\ BaseNow = scen_hist.profile
    /\ base_plan = scen_hist.plan

\* A debt payoff that evaluated a profile with fewer debts, after an
\* earlier operation of the sequence had failed.
C7_Witness ==
    /\ PaidOff /\ scen_ret.status = "ok" /\ scen_hist.failed
    /\ Evaluated.profile.debts # scen_hist.profile.debts
    /\ Evaluated.refs["debts"] # base_profile.debts

\* C8: analyze_debt_payoff with a name that is not a key of the base
\* profile's debts raises ValueError and returns no ScenarioResult.
C8_MissingDebtRaisesValueError ==
    (PaidOff /\ scen_ret.arg[1] \notin DOMAIN scen_hist.profile.debts)
        => (scen_ret.status = "ValueError" /\ scen_ret.returned = <<>>)

\* The payoff of a debt that the profile, which has other debts, lacks.
C8_Witness ==
    /\ PaidOff /\ scen_ret.status = "ValueError"
    /\ scen_ret.arg[1] \notin DOMAIN BaseNow.debts
    /\ BaseNow.debts # EmptyDict

\* C9: analyze_debt_payoff with a name among the base profile's debts
\* evaluates a profile whose debts are the base debts without that name:
\* one entry fewer, every other debt with its name and balance.
C9_PayoffRemovesExactlyTheNamedDebt ==
    (PaidOff /\ scen_ret.arg[1] \in DOMAIN scen_hist.profile.debts)
        => /\ scen_ret.status = "ok"
           /\ DOMAIN Evaluated.profile.debts =
                  DOMAIN scen_hist.profile.debts \ {scen_ret.arg[1]}
           /\ Cardinality(DOMAIN Evaluated.profile.debts) =
                  Cardinality(DOMAIN scen_hist.profile.debts) - 1
           /\ \A k \in DOMAIN Evaluated.profile.debts :
                  Evaluated.profile.debts[k] = scen_hist.profile.debts[k]

\* One of two debts is paid off and the other is evaluated as it was.
C9_Witness ==
    /\ PaidOff /\ scen_ret.status = "ok"
    /\ Cardinality(DOMAIN scen_hist.profile.debts) = 2
    /\ Cardinality(DOMAIN Evaluated.profile.debts) = 1

\* C10: the profile analyze_market_crash(c) evaluates has current_savings
\* and every investment and retirement balance equal to the base value
\* times (1 + c), under the same account names, and the base debts.
C10_CrashScalesAssetsAndKeepsDebts ==
    (Crashed /\ scen_ret.status = "ok")
        => LET c == scen_ret.arg[1]
               b == scen_hist.profile
               m == Evaluated.profile
           IN  /\ m.current_savings = RMul(b.current_savings, RAdd(One, c))
               /\ \A f \in {"investment_accounts", "retirement_accounts"} :
                      /\ DOMAIN m[f] = DOMAIN b[f]
                      /\ \A k \in DOMAIN b[f] :
                             m[f][k] = RMul(b[f][k], RAdd(One, c))
               /\ m.debts = b.debts

\* A crash of 30% on a profile with savings, accounts of both kinds and
\* debts: the 401k of 200000 is evaluated at 140000.
C10_Witness ==
    /\ Crashed /\ scen_ret.status = "ok" /\ scen_ret.arg[1] = Q(-3, 10)
    /\ scen_hist.profile.current_savings # Zero
    /\ scen_hist.profile.investment_accounts # EmptyDict
    /\ scen_hist.profile.debts # EmptyDict
    /\ Evaluated.profile.retirement_accounts["401k"] = Num(140000)
    /\ Evaluated.profile.current_savings = Num(7000)

\* The fields each scenario operation passes to replace().
ReplacedFields ==
    [analyze_income_change |-> {"annual_income"},
     analyze_savings_rate_change |-> {"monthly_savings"},
     analyze_expense_change |-> {"monthly_expenses"},
     analyze_debt_payoff |-> {"debts"},
     analyze_market_crash |->
         {"current_savings", "investment_accounts", "retirement_accounts"},
     analyze_retirement_age_change |-> {"target_retirement_age"},
     analyze_return_rate_change |-> {"investment_return_rate"}]
PlanScenarios == {"analyze_retirement_age_change", "analyze_return_rate_change"}

\* C23: the income, savings-rate, expense, debt-payoff and market-crash
\* scenarios evaluate a profile that differs from the base profile in the
\* replaced fields only, against the base plan; the retirement-age and
\* return-rate scenarios evaluate a plan that differs from the base plan in
\* the replaced field only, against the base profile itself; no operation
\* changes both.
C23_OneModifiedCopyPerScenario ==
    scen_ret.status = "ok"
        => LET changed == ReplacedFields[scen_ret.method]
           IN  IF scen_ret.method \in PlanScenarios
               THEN /\ Evaluated.profile = BaseNow
                    /\ \A f \in DictFields : Evaluated.refs[f] = base_profile[f]
                    /\ \A f \in DOMAIN base_plan \ changed :
                           Evaluated.plan[f] = base_plan[f]
               ELSE /\ Evaluated.plan = base_plan
                    /\ \A f \in DOMAIN BaseNow \ changed :
                           Evaluated.profile[f] = BaseNow[f]

\* An income scenario that evaluated a profile with another income under
\* the base plan.
C23_Witness ==
    /\ scen_ret.status = "ok" /\ scen_ret.method = "analyze_income_change"
    /\ Evaluated.profile.annual_income # BaseNow.annual_income
    /\ Evaluated.plan = base_plan

\* The operation scales a positive validated field by 1 + arg < 0.
ScalesBelowZero(method, field) ==
    /\ scen_ret.method = method
    /\ RLt(scen_ret.arg[1], Num(-1))
    /\ RGt(BaseNow[field], Zero)

\* C30: a scenario operation whose perturbation makes annual income,
\* monthly expenses or current savings negative (an income or expense
\* change below -100%, a market crash below -100% on positive savings)
\* fails with ValueError and returns no ScenarioResult, and every profile
\* a scenario evaluates has non-negative income, expenses and current
\* savings.
C30_ScenarioCopiesAreValidated ==
    /\ (\/ ScalesBelowZero("analyze_income_change", "annual_income")
        \/ ScalesBelowZero("analyze_expense_change", "monthly_expenses")
        \/ ScalesBelowZero("analyze_market_crash", "current_savings"))
          => /\ scen_ret.status = "ValueError"
             /\ scen_ret.returned = <<>> /\ scen_ret.evaluated = <<>>
    /\ scen_ret.status = "ok"
          => /\ RGe(Evaluated.profile.annual_income, Zero)
             /\ RGe(Evaluated.profile.monthly_expenses, Zero)
             /\ RGe(Evaluated.profile.current_savings, Zero)

\* A market crash of -150% on a profile with savings raises ValueError.
C30_Witness ==
    /\ ScalesBelowZero("analyze_market_crash", "current_savings")
    /\ scen_ret.status = "ValueError"
    /\ scen_ret.returned = <<>>

-----------------------------------------------------------------------------
(* SpecReplay: project_to_retirement and monte_carlo_retirement_analysis   *)
(* with market_volatility 0 on the same projector.                         *)

ReplayPlans ==
    [target_retirement_age : {64, 65, 66},
     target_annual_income : {Num(40000)},
     target_income_replacement_ratio : {Q(4, 5)},
     inflation_rate : {Q(1, 40)},
     investment_return_rate : {Zero, Q(1, 2)},
     withdrawal_rate : {Q(1, 25)},
     estimated_social_security : {None, Num(20000)}]

ReplayProfiles ==
    [name : {"Test User"}, birth_date : {<<1960, 1, 1>>}, retirement_age : {65},
     annual_income : {Num(60000)}, income_growth_rate : {Zero, Q(1, 2)},
     monthly_expenses : {Num(4000)}, expense_growth_rate : {Q(1, 2)},
     current_savings : {Num(4800)}, monthly_savings : {Zero, Num(1000)},
     investment_accounts : {EmptyDict},
     retirement_accounts : {[k \in {"401k"} |-> Num(200000)]},
     debts : {EmptyDict}]

ReplayArgs ==
    [simulations : 1..MaxSims, volatility : {Zero},
     initial_value : {Num(10000)}, annual_return : {Q(1, 2)},
     years : {2}, annual_contribution : {Num(1000)}]

InitReplay ==
    /\ today = Today /\ reads = <<>> /\ ctor = None /\ portfolio = None
    /\ profile \in ReplayProfiles
    /\ plan \in ReplayPlans
    /\ rng = UnseededRng
    /\ mc = [p \in Callers |-> IdleCall]
    /\ mc_args \in ReplayArgs
    /\ mc_log = <<>>
    /\ CalcIdle /\ PlanIdle /\ ProjIdle /\ ScenIdle

NextReplay ==
    \/ CallProjectToRetirement
    \/ AccumulationStep
    \/ AccumulationReturn
    \/ CallMonteCarlo("a", "monte_carlo_retirement_analysis")
    \/ SampleYear("a")

SpecReplay == InitReplay /\ [][NextReplay]_vars

\* C11: with market_volatility 0 every sampled return is the plan's rate,
\* and the ending portfolio of each trial of monte_carlo_retirement_analysis
\* equals final_portfolio_value of project_to_retirement for the same
\* profile and plan.
C11_TrialReplaysDeterministicAccumulation ==
    (pc = "returned" /\ frame.method = "project_to_retirement")
        => \A i \in 1..Len(mc_log) :
               \A k \in 1..Len(mc_log[i].result.final_values) :
                   mc_log[i].result.final_values[k] =
                       proj_ret.projection.final_portfolio_value

-----------------------------------------------------------------------------
(* SpecClock: reads of the derived properties and scenario calls while the *)
(* calendar moves on.                                                      *)

\* The dates date.today() returns, in order; the second and the third lie
\* on either side of a birthday on 1 January.
Dates == <<Today, <<2024, 12, 31>>, <<2025, 1, 1>>>>
DateIndex == CHOOSE i \in 1..Len(Dates) : Dates[i] = today

ClockProfiles ==
    [name : {"Test User"}, birth_date : {<<1960, 1, 1>>}, retirement_age : {65},
     annual_income : {Zero, Num(60000)}, income_growth_rate : {Q(3, 100)},
     monthly_expenses : {Num(4000)}, expense_growth_rate : {Q(1, 40)},
     current_savings : {Num(10000)},
     monthly_savings : {Num(500)},
     investment_accounts : {[k \in {"brokerage"} |-> Num(50000)]},
     retirement_accounts : {[k \in {"401k"} |-> Num(200000)]},
     debts : {[k \in {"credit_card"} |-> Num(5000)]}]

ClockPlans ==
    [target_retirement_age : {65},
     target_annual_income : {Num(40000)},
     target_income_replacement_ratio : {Q(4, 5)},
     inflation_rate : {Q(1, 40)},
     investment_return_rate : {Zero},
     withdrawal_rate : {Q(1, 25)},
     estimated_social_security : {None, Num(20000)}]

InitClock ==
    /\ today = Today /\ reads = <<>> /\ ctor = None /\ portfolio = None
    /\ \E p \in ClockProfiles, pl \in ClockPlans :
        /\ PostInit(p) = "ok"
        /\ heap = [r \in DictFields |-> p[r]]
        /\ base_profile = [p EXCEPT !.investment_accounts = "investment_accounts",
                                    !.retirement_accounts = "retirement_accounts",
                                    !.debts = "debts"]
        /\ base_plan = pl
        /\ scen_hist = [profile |-> p, plan |-> pl, failed |-> FALSE,
                        at |-> None]
    /\ scen_ret = [method |-> "none", arg |-> <<>>, status |-> "none",
                   returned |-> <<>>, evaluated |-> <<>>]
    /\ profile = None /\ plan = None
    /\ CalcIdle /\ PlanIdle /\ ProjIdle /\ McIdle

\* The calendar moves to the next date.
Tick ==
    /\ DateIndex < Len(Dates)
    /\ today' = Dates[DateIndex + 1]
    /\ UNCHANGED <<profile, plan, reads, ctor, portfolio, calcVars, planVars, projVars, mcVars,
                   scenVars>>

\* A profile with the stored fields p is read: every derived property once.
ReadDerived(p) ==
    /\ Len(reads) < MaxReads
    /\ reads' = Append(reads, [at |-> today, fields |-> p,
                               derived |-> Derived(p, today)])
    /\ UNCHANGED <<today, profile, plan, ctor, portfolio, calcVars, planVars, projVars, mcVars,
                   scenVars>>

NextClock ==
    \/ Tick
    \/ \E p \in ClockProfiles : ReadDerived(p)
    \/ \E x \in RetirementAges : AnalyzeRetirementAgeChange(x)
    \/ \E x \in IncomeChanges : AnalyzeIncomeChange(x)

SpecClock == InitClock /\ [][NextClock]_vars

\* Two successive scenario calls of the same operation with the same
\* argument, both returning a result.
SameCallAgain ==
    /\ scen_ret # scen_ret' \/ scen_hist # scen_hist'
    /\ scen_ret.status = "ok" /\ scen_ret'.status = "ok"
    /\ scen_ret'.method = scen_ret.method
    /\ scen_ret'.arg = scen_ret.arg

-----------------------------------------------------------------------------
(* SpecReq: calls of calculate_required_portfolio_value on one plan after  *)
(* another, for the same profile.                                          *)

ReqProfiles ==
    [name : {"Test User"}, birth_date : {<<1960, 1, 1>>}, retirement_age : {65},
     annual_income : {Zero, Num(60000)}, income_growth_rate : {Q(3, 100)},
     monthly_expenses : {Num(4000)}, expense_growth_rate : {Q(1, 40)},
     current_savings : {Num(10000)}, monthly_savings : {Num(500)},
     investment_accounts : {EmptyDict}, retirement_accounts : {EmptyDict},
     debts : {EmptyDict}]

ReqPlans ==
    [target_retirement_age : {65},
     target_annual_income : {Zero, Num(30000), Num(40000)},
     target_income_replacement_ratio : {Q(4, 5)},
     inflation_rate : {Q(1, 40)},
     investment_return_rate : {Zero},
     withdrawal_rate : {Q(1, 25), Q(1, 20), Q(1, 10)},
     estimated_social_security : {None, Zero, Num(20000), Num(50000)}]

InitReq ==
    /\ today = Today /\ reads = <<>> /\ ctor = None /\ portfolio = None
    /\ profile \in ReqProfiles
    /\ PostInit(profile) = "ok"
    /\ plan \in ReqPlans
    /\ plan_out = [op |-> "pending", value |-> None]
    /\ CalcIdle /\ ProjIdle /\ McIdle /\ ScenIdle

\* pl.calculate_required_portfolio_value(profile); pl is the plan from now on.
CallRequiredPortfolioValue(pl) ==
    /\ plan' = pl
    /\ plan_out' = [op |-> "calculate_required_portfolio_value",
                    value |-> CalculateRequiredPortfolioValue(pl, profile)]
    /\ UNCHANGED <<today, profile, reads, ctor, portfolio, calcVars, projVars, mcVars,
                   scenVars>>

NextReq == \E pl \in ReqPlans : CallRequiredPortfolioValue(pl)

SpecReq == InitReq /\ [][NextReq]_vars

\* The plan of this call differs from the plan of the call before in the
\* field f at most.
OnlyFieldChanged(f) == \A g \in DOMAIN plan \ {f} : plan'[g] = plan[g]

TwoRequiredValues ==
    /\ plan_out.op = "calculate_required_portfolio_value"
    /\ plan_out'.op = "calculate_required_portfolio_value"

\* C13: with the profile and the other plan fields fixed, a larger target
\* annual income, a smaller withdrawal rate and a smaller Social Security
\* estimate each never yield a smaller required portfolio value.
C13_RequiredPortfolioIsMonotonic ==
    [][TwoRequiredValues =>
        /\ (OnlyFieldChanged("target_annual_income")
              /\ RGe(plan'.target_annual_income, plan.target_annual_income))
            => RGe(plan_out'.value, plan_out.value)
        /\ (OnlyFieldChanged("withdrawal_rate")
              /\ RLe(plan'.withdrawal_rate, plan.withdrawal_rate))
            => RGe(plan_out'.value, plan_out.value)
        /\ (OnlyFieldChanged("estimated_social_security")
              /\ plan.estimated_social_security # None
              /\ plan'.estimated_social_security # None
              /\ RLe(plan'.estimated_social_security,
                     plan.estimated_social_security))
            => RGe(plan_out'.value, plan_out.value)]_vars

-----------------------------------------------------------------------------
(* SpecCtor: FinancialProfile(...) constructor calls.                      *)

CtorArgs ==
    [name : {"Test User"}, birth_date : {<<1960, 1, 1>>}, retirement_age : {65},
     annual_income : {Num(-1), Zero, Num(60000)},
     income_growth_rate : {Q(3, 100)},
     monthly_expenses : {Num(-1), Zero, Num(4000)},
     expense_growth_rate : {Q(1, 40)},
     current_savings : {Num(-1), Zero, Num(10000)},
     monthly_savings : {Num(-500), Num(500)},
     investment_accounts : {EmptyDict},
     retirement_accounts : {[k \in {"401k"} |-> Num(200000)]},
     debts : {EmptyDict, [k \in {"credit_card"} |-> Num(5000)]}]

InitCtor ==
    /\ today = Today /\ reads = <<>>
    /\ ctor = [args |-> <<>>, status |-> "none", object |-> <<>>]
    /\ portfolio = None
    /\ profile = None /\ plan = None
    /\ CalcIdle /\ PlanIdle /\ ProjIdle /\ McIdle /\ ScenIdle

\* FinancialProfile(**args): the generated __init__ stores the fields and
\* runs __post_init__; when that raises, the caller gets no object.
ConstructProfile(args) ==
    /\ ctor' = [args |-> <<args>>,
                status |-> PostInit(args),
                object |-> IF PostInit(args) = "ok" THEN <<args>> ELSE <<>>]
    /\ UNCHANGED <<today, profile, plan, reads, portfolio, calcVars, planVars, projVars,
                   mcVars, scenVars>>

NextCtor == \E args \in CtorArgs : ConstructProfile(args)

SpecCtor == InitCtor /\ [][NextCtor]_vars

NegativeStored(p) ==
    \/ RLt(p.annual_income, Zero)
    \/ RLt(p.monthly_expenses, Zero)
    \/ RLt(p.current_savings, Zero)

\* C14: constructing a FinancialProfile with a negative annual income,
\* monthly expenses or current savings raises ValueError in the constructor,
\* and no object with such a value comes out of a constructor call.
C14_NegativeFieldsFailConstruction ==
    /\ \A i \in 1..Len(ctor.args) :
           NegativeStored(ctor.args[i])
               => (ctor.status = "ValueError" /\ ctor.object = <<>>)
    /\ \A i \in 1..Len(ctor.object) : ~NegativeStored(ctor.object[i])

\* A construction that failed on negative current savings alone.
C14_Witness ==
    /\ ctor.status = "ValueError" /\ ctor.object = <<>>
    /\ RLt(ctor.args[1].current_savings, Zero)
    /\ ~RLt(ctor.args[1].annual_income, Zero)
    /\ ~RLt(ctor.args[1].monthly_expenses, Zero)

-----------------------------------------------------------------------------
(* SpecCompare: compare_scenarios on a list of scenario results.           *)

ComparedResults ==
    [scenario_name : {"Income Change", "Market Crash"},
     retirement_readiness_score : {Num(40), Num(75), Hundred},
     required_monthly_savings : {Zero, Num(500)},
     projected_portfolio_value : {Num(100000)},
     years_to_fi : {0},
     changes_applied : {<<"crash_percent", Q(-3, 10)>>}]

ScenarioLists == UNION {[1..n -> ComparedResults] : n \in 0..MaxScenarios}

InitCompare ==
    /\ today = Today /\ reads = <<>> /\ ctor = None /\ portfolio = None
    /\ \E p \in ClockProfiles, pl \in ClockPlans :
        /\ PostInit(p) = "ok"
        /\ p.annual_income # Zero /\ pl.estimated_social_security = None
        /\ heap = [r \in DictFields |-> p[r]]
        /\ base_profile = [p EXCEPT !.investment_accounts = "investment_accounts",
                                    !.retirement_accounts = "retirement_accounts",
                                    !.debts = "debts"]
        /\ base_plan = pl
        /\ scen_hist = [profile |-> p, plan |-> pl, failed |-> FALSE,
                        at |-> None]
    /\ \E scenarios \in ScenarioLists :
        scen_ret = [method |-> "compare_scenarios", arg |-> <<scenarios>>,
                    status |-> "pending", returned |-> <<>>, evaluated |-> <<>>]
    /\ profile = None /\ plan = None
    /\ CalcIdle /\ PlanIdle /\ ProjIdle /\ McIdle

NextCompare == CompareScenarios

SpecCompare == InitCompare /\ [][NextCompare]_vars

Compared == scen_ret.method = "compare_scenarios" /\ scen_ret.status # "pending"
\* The reported entry names one result of the list with that value.
Reports(scenarios, entry, field, key) ==
    \E i \in 1..Len(scenarios) :
        /\ scenarios[i][field] = entry[key]
        /\ scenarios[i].scenario_name = entry.name
        /\ scenarios[i].changes_applied = entry.changes

\* C15: on a list that is not empty compare_scenarios reports as best and
\* worst scenario results of the list with the largest and the smallest
\* readiness score, as lowest and highest savings needed results with the
\* smallest and the largest required monthly savings, and as score_range
\* the largest score minus the smallest (>= 0, and 0 for a single result).
C15_ComparisonReportsExtremes ==
    (Compared /\ scen_ret.arg[1] # <<>>)
        => LET s == scen_ret.arg[1]
               r == scen_ret.returned[1]
               score == "retirement_readiness_score"
               savings == "required_monthly_savings"
           IN  /\ scen_ret.status = "ok"
               /\ Reports(s, r.best_scenario, score, "score")
               /\ Reports(s, r.worst_scenario, score, "score")
               /\ Reports(s, r.lowest_savings_needed, savings, "monthly_savings")
               /\ Reports(s, r.highest_savings_needed, savings, "monthly_savings")
               /\ \A i \in 1..Len(s) :
                      /\ RLe(s[i][score], r.best_scenario.score)
                      /\ RGe(s[i][score], r.worst_scenario.score)
                      /\ RGe(s[i][savings], r.lowest_savings_needed.monthly_savings)
                      /\ RLe(s[i][savings], r.highest_savings_needed.monthly_savings)
               /\ r.score_range =
                      RSub(r.best_scenario.score, r.worst_scenario.score)
               /\ RGe(r.score_range, Zero)
               /\ Len(s) = 1 => r.score_range = Zero

\* A comparison of three results whose smallest score and smallest savings
\* are not at the head of the list.
C15_Witness ==
    /\ Compared /\ Len(scen_ret.arg[1]) = 3
    /\ RGt(scen_ret.returned[1].score_range, Zero)
    /\ scen_ret.returned[1].worst_scenario.score
           # scen_ret.arg[1][1].retirement_readiness_score
    /\ scen_ret.returned[1].lowest_savings_needed.monthly_savings
           # scen_ret.arg[1][1].required_monthly_savings

\* C16: compare_scenarios on an empty list returns an empty result and
\* raises nothing.
C16_EmptyListGivesEmptyResult ==
    (Compared /\ scen_ret.arg[1] = <<>>)
        => /\ scen_ret.status = "ok"
           /\ Len(scen_ret.returned) = 1
           /\ \A i \in 1..Len(scen_ret.returned) :
                  DOMAIN scen_ret.returned[i] = {}

\* The comparison of the empty list has returned.
C16_Witness ==
    /\ Compared /\ scen_ret.arg[1] = <<>>
    /\ scen_ret.status = "ok" /\ scen_ret.returned # <<>>

-----------------------------------------------------------------------------
(* SpecCompound: future_value over a span of periods, in two legs and in   *)
(* one, in floating point.                                                 *)

\* Arguments that are floats themselves.
CompoundArgs ==
    {a \in [op : {"future_value"}, present_value : {Zero, One, Num(24)},
            rate : {Zero, Q(1, 8), Q(1, 4), Q(1, 2), Q(-1, 4)},
            n1 : 0..MaxPeriods, n2 : 0..MaxPeriods] :
        a.n1 + a.n2 <= MaxPeriods}

InitCompound ==
    /\ calc_in \in CompoundArgs
    /\ calc_out = <<>>
    /\ InputsIdle /\ PlanIdle /\ ProjIdle /\ McIdle /\ ScenIdle

\* future_value(pv, r, n1)
FirstLeg ==
    /\ Len(calc_out) = 0
    /\ calc_out' = <<FutureValueRounded(calc_in.present_value, calc_in.rate,
                                        calc_in.n1)>>
    /\ UNCHANGED <<calc_in, inputVars, planVars, projVars, mcVars, scenVars>>

\* future_value(future_value(pv, r, n1), r, n2)
SecondLeg ==
    /\ Len(calc_out) = 1 /\ calc_out[1].status = "ok"
    /\ calc_out' = Append(calc_out,
                          FutureValueRounded(calc_out[1].value, calc_in.rate,
                                             calc_in.n2))
    /\ UNCHANGED <<calc_in, inputVars, planVars, projVars, mcVars, scenVars>>

\* future_value(pv, r, n1 + n2)
WholeSpan ==
    /\ Len(calc_out) = 2
    /\ calc_out' = Append(calc_out,
                          FutureValueRounded(calc_in.present_value, calc_in.rate,
                                             calc_in.n1 + calc_in.n2))
    /\ UNCHANGED <<calc_in, inputVars, planVars, projVars, mcVars, scenVars>>

NextCompound == FirstLeg \/ SecondLeg \/ WholeSpan

SpecCompound == InitCompound /\ [][NextCompound]_vars

\* C20 as stated: for pv >= 0, a rate r and period counts n1, n2 >= 0,
\* future_value(future_value(pv, r, n1), r, n2) equals
\* future_value(pv, r, n1 + n2).
C20_CompoundingIsAdditive ==
    Len(calc_out) = 3
        => /\ calc_out[2].status = "ok" /\ calc_out[3].status = "ok"
           /\ calc_out[2].value = calc_out[3].value

\* C20 as amended: the two results agree up to floating-point rounding,
\* their difference being at most 7 rounding units (2^-MantissaBits each)
\* of the one-step result, and they are equal when a leg has no periods or
\* the rate is 0.
C20_CompoundingIsAdditiveUpToRounding ==
    Len(calc_out) = 3
        => /\ calc_out[2].status = "ok" /\ calc_out[3].status = "ok"
           /\ RLe(RMul(Num(2 ^ MantissaBits),
                       RSub(RMax(calc_out[2].value, calc_out[3].value),
                            RMin(calc_out[2].value, calc_out[3].value))),
                  RMul(Num(7), calc_out[3].value))
           /\ (calc_in.n1 = 0 \/ calc_in.n2 = 0 \/ calc_in.rate = Zero)
                  => calc_out[2].value = calc_out[3].value

\* Two legs of at least one period each whose result differs from the
\* one-step result by rounding.
C20_Witness ==
    /\ Len(calc_out) = 3
    /\ calc_in.n1 > 0 /\ calc_in.n2 > 0
    /\ calc_out[2].value # calc_out[3].value
    /\ RGt(calc_out[3].value, calc_in.present_value)

-----------------------------------------------------------------------------
(* SpecRoundTrip: present_value, then future_value of its result.          *)

RoundTripArgs ==
    [op : {"present_value"}, future_value : {Zero, One, Num(3), Num(24)},
     rate : {Zero, Q(1, 8), Q(1, 4), Q(1, 2), Q(-1, 4), Num(-1)},
     periods : 0..MaxPeriods]

InitRoundTrip ==
    /\ calc_in \in RoundTripArgs
    /\ calc_out = <<>>
    /\ InputsIdle /\ PlanIdle /\ ProjIdle /\ McIdle /\ ScenIdle

\* present_value(fv, rate, n)
CallPresentValue ==
    /\ Len(calc_out) = 0
    /\ calc_out' = <<PresentValueRounded(calc_in.future_value, calc_in.rate,
                                         calc_in.periods)>>
    /\ UNCHANGED <<calc_in, inputVars, planVars, projVars, mcVars, scenVars>>

\* future_value(present_value(fv, rate, n), rate, n): reached only when
\* present_value returned.
CallFutureValueOfResult ==
    /\ Len(calc_out) = 1 /\ calc_out[1].status = "ok"
    /\ calc_out' = Append(calc_out,
                          FutureValueRounded(calc_out[1].value, calc_in.rate,
                                             calc_in.periods))
    /\ UNCHANGED <<calc_in, inputVars, planVars, projVars, mcVars, scenVars>>

NextRoundTrip == CallPresentValue \/ CallFutureValueOfResult

SpecRoundTrip == InitRoundTrip /\ [][NextRoundTrip]_vars

\* C21 as stated: for all fv >= 0, every rate and every n >= 0,
\* present_value returns and future_value of its result returns fv.
C21_RoundTripReturnsFv ==
    /\ Len(calc_out) >= 1 => calc_out[1].status = "ok"
    /\ Len(calc_out) = 2 => calc_out[2].value = calc_in.future_value

\* C21 as amended: when (1 + rate) ** n is not 0 the round trip returns fv
\* up to floating-point rounding (at most 3 rounding units of fv), and fv
\* itself when n = 0; at rate -1 with n >= 1 present_value raises
\* ZeroDivisionError.
C21_RoundTripReturnsFvUpToRounding ==
    /\ Len(calc_out) >= 1
          => (calc_out[1].status = "ZeroDivisionError"
                 <=> (calc_in.rate = Num(-1) /\ calc_in.periods >= 1))
    /\ Len(calc_out) = 2
          => /\ calc_out[2].status = "ok"
             /\ RLe(RMul(Num(2 ^ MantissaBits),
                         RSub(RMax(calc_out[2].value, calc_in.future_value),
                              RMin(calc_out[2].value, calc_in.future_value))),
                    RMul(Num(3), calc_in.future_value))
             /\ calc_in.periods = 0 => calc_out[2].value = calc_in.future_value

\* A round trip over at least one period at a non-zero rate whose result
\* is not fv itself.
C21_Witness ==
    /\ Len(calc_out) = 2
    /\ calc_in.periods >= 1 /\ calc_in.rate # Zero
    /\ RGt(calc_in.future_value, Zero)
    /\ calc_out[2].value # calc_in.future_value

-----------------------------------------------------------------------------
(* SpecIdentity: one call of future_value, in floating point.              *)

IdentityArgs ==
    [op : {"future_value"}, present_value : {Zero, One, Num(3), Num(24), Num(-3)},
     rate : {Zero, Q(1, 64), Q(1, 8), Q(1, 4), Q(1, 2), Q(-1, 4), Num(-1), Num(-2)},
     periods : 0..MaxPeriods]

InitIdentity ==
    /\ calc_in \in IdentityArgs
    /\ calc_out = <<>>
    /\ InputsIdle /\ PlanIdle /\ ProjIdle /\ McIdle /\ ScenIdle

\* future_value(pv, rate, n)
CallFutureValueRounded ==
    /\ Len(calc_out) = 0
    /\ calc_out' = <<FutureValueRounded(calc_in.present_value, calc_in.rate,
                                        calc_in.periods)>>
    /\ UNCHANGED <<calc_in, inputVars, planVars, projVars, mcVars, scenVars>>

NextIdentity == CallFutureValueRounded

SpecIdentity == InitIdentity /\ [][NextIdentity]_vars

\* C22: future_value(pv, 0, n) = pv for all n >= 0, future_value(pv, r, 0)
\* = pv for all r, and future_value(0, r, n) = 0 for all r and n >= 0.
C22_FutureValueIdentityCases ==
    Len(calc_out) = 1
        => /\ calc_out[1].status = "ok"
           /\ calc_in.rate = Zero => calc_out[1].value = calc_in.present_value
           /\ calc_in.periods = 0 => calc_out[1].value = calc_in.present_value
           /\ calc_in.present_value = Zero => calc_out[1].value = Zero

\* A call with no periods at a non-zero rate on a non-zero present value.
C22_Witness ==
    /\ Len(calc_out) = 1
    /\ calc_in.periods = 0 /\ calc_in.rate # Zero
    /\ calc_in.present_value # Zero
    /\ calc_out[1].value = calc_in.present_value

-----------------------------------------------------------------------------
(* SpecFire: one call of calculate_fire_metrics on a projector.            *)

FireProfiles ==
    [name : {"Test User"}, birth_date : BirthDates, retirement_age : {65},
     annual_income : {Num(60000)}, income_growth_rate : {Q(3, 100)},
     monthly_expenses : {Zero, Num(10), Num(400)},
     expense_growth_rate : {Q(1, 40)},
     current_savings : {Zero, Num(4800)},
     monthly_savings : {Zero, Num(500)},
     investment_accounts : {EmptyDict, [k \in {"brokerage"} |-> Num(25200)]},
     retirement_accounts : {EmptyDict, [k \in {"401k"} |-> Num(150000)]},
     debts : {EmptyDict}]

\* Return rates above -1; a monthly rate of 1 keeps the logarithm's
\* argument and base whole.
FirePlans ==
    [target_retirement_age : TargetAges,
     target_annual_income : {Num(40000)},
     target_income_replacement_ratio : {Q(4, 5)},
     inflation_rate : {Q(1, 40)},
     investment_return_rate : {Zero, Num(12), Q(-1, 2)},
     withdrawal_rate : {Q(1, 25)},
     estimated_social_security : {None}]

InitFire ==
    /\ today = Today /\ reads = <<>> /\ ctor = None /\ portfolio = None
    /\ profile \in FireProfiles
    /\ PostInit(profile) = "ok"
    /\ plan \in FirePlans
    /\ pc = "idle" /\ frame = NoFrame /\ proj_ret = [fire_metrics |-> <<>>]
    /\ CalcIdle /\ PlanIdle /\ McIdle /\ ScenIdle

CallCalculateFireMetrics ==
    /\ proj_ret.fire_metrics = <<>>
    /\ proj_ret' = [fire_metrics |-> <<CalculateFireMetrics(plan, profile, today)>>]
    /\ UNCHANGED <<pc, frame, inputVars, calcVars, planVars, mcVars, scenVars>>

NextFire == CallCalculateFireMetrics

SpecFire == InitFire /\ [][NextFire]_vars

FireReturned == proj_ret.fire_metrics # <<>>
Fire == proj_ret.fire_metrics[1]

\* C24: fire_number is 25 x annual expenses, and lean, barista and fat are
\* 0.6 x, 0.7 x and 1.5 x that figure, so for non-negative annual expenses
\* lean <= barista <= fire_number <= fat; and current_progress_percent is
\* 0, with no division error, when fire_number is 0.
C24_FireNumbersAndGuardedProgress ==
    FireReturned
        => /\ Fire.fire_number = RMul(Num(25), AnnualExpenses(profile))
           /\ Fire.lean_fire_number = RMul(Q(6, 10), Fire.fire_number)
           /\ Fire.barista_fire_number = RMul(Q(7, 10), Fire.fire_number)
           /\ Fire.fat_fire_number = RMul(Q(3, 2), Fire.fire_number)
           /\ RGe(AnnualExpenses(profile), Zero)
                  => /\ RLe(Fire.lean_fire_number, Fire.barista_fire_number)
                     /\ RLe(Fire.barista_fire_number, Fire.fire_number)
                     /\ RLe(Fire.fire_number, Fire.fat_fire_number)
           /\ Fire.fire_number = Zero => Fire.current_progress_percent = Zero

\* Metrics of a profile without expenses that holds assets: the fire
\* number is 0 and so is the progress.
C24_Witness ==
    /\ FireReturned
    /\ Fire.fire_number = Zero
    /\ RGt(TotalAssets(profile), Zero)
    /\ Fire.current_progress_percent = Zero

\* C25: years_to_fire is 0 when the total assets are at or above the
\* fire_number, and when the monthly return rate is 0 and the assets are
\* below the fire_number with positive monthly savings it is the shortfall
\* over 12 x the monthly savings.
C25_YearsToFire ==
    FireReturned
        => /\ RGe(TotalAssets(profile), Fire.fire_number)
                  => Fire.years_to_fire.value = Zero
           /\ (/\ plan.investment_return_rate = Zero
               /\ RLt(TotalAssets(profile), Fire.fire_number)
               /\ RGt(profile.monthly_savings, Zero))
                  => Fire.years_to_fire.value =
                         RDiv(RSub(Fire.fire_number, TotalAssets(profile)),
                              RMul(Num(12), profile.monthly_savings))

\* A shortfall of 120000 - 4800 closed at 500 a month without returns in
\* 19.2 years.
C25_Witness ==
    /\ FireReturned
    /\ plan.investment_return_rate = Zero
    /\ profile.monthly_savings = Num(500)
    /\ TotalAssets(profile) = Num(4800)
    /\ Fire.fire_number = Num(120000)
    /\ Fire.years_to_fire.value = Q(96, 5)

-----------------------------------------------------------------------------
(* SpecPortfolio: a Portfolio whose investments are added and removed and  *)
(* whose asset_allocation is read.                                         *)

\* Two stock funds, a bond fund and a short stock position.
Holdings ==
    {[symbol |-> "VTI", asset_class |-> "stocks", shares |-> Num(2),
      current_price |-> Num(3)],
     [symbol |-> "VOO", asset_class |-> "stocks", shares |-> One,
      current_price |-> Num(4)],
     [symbol |-> "BND", asset_class |-> "bonds", shares |-> Num(2),
      current_price |-> Num(5)],
     [symbol |-> "SHORT", asset_class |-> "stocks", shares |-> Num(-2),
      current_price |-> Num(3)]}

\* Portfolio(name): the default investments list is empty.
InitPortfolio ==
    /\ portfolio = <<>>
    /\ today = Today /\ profile = None /\ plan = None /\ reads = <<>> /\ ctor = None
    /\ CalcIdle /\ PlanIdle /\ ProjIdle /\ McIdle /\ ScenIdle

\* add_investment(investment).  A read made of the earlier list is dropped.
AddInvestment(investment) ==
    /\ Len(portfolio) < MaxHoldings
    /\ portfolio' = Append(portfolio, investment)
    /\ reads' = <<>>
    /\ UNCHANGED <<today, profile, plan, ctor, calcVars, planVars, projVars,
                   mcVars, scenVars>>

\* remove_investment(symbol): the first investment with the symbol goes,
\* and the list stays as it is when there is none.
RemoveInvestment(symbol) ==
    /\ portfolio' = IF FirstWithSymbol(portfolio, symbol, 1) = 0 THEN portfolio
                    ELSE Without(portfolio, FirstWithSymbol(portfolio, symbol, 1))
    /\ reads' = <<>>
    /\ UNCHANGED <<today, profile, plan, ctor, calcVars, planVars, projVars,
                   mcVars, scenVars>>

\* A read of total_value and asset_allocation.
ReadAssetAllocation ==
    /\ reads = <<>>
    /\ reads' = <<[investments |-> portfolio,
                   total_value |-> TotalValue(portfolio),
                   asset_allocation |-> AssetAllocation(portfolio)]>>
    /\ UNCHANGED <<today, profile, plan, ctor, portfolio, calcVars, planVars,
                   projVars, mcVars, scenVars>>

NextPortfolio ==
    \/ \E investment \in Holdings : AddInvestment(investment)
    \/ \E investment \in Holdings : RemoveInvestment(investment.symbol)
    \/ ReadAssetAllocation

SpecPortfolio == InitPortfolio /\ [][NextPortfolio]_vars

ClassesHeld(investments) ==
    {investments[i].asset_class : i \in 1..Len(investments)}
ClassValue(investments, asset_class) ==
    LET of_class == {i \in 1..Len(investments) :
                        investments[i].asset_class = asset_class}
    IN  SumOver([i \in of_class |-> CurrentValue(investments[i])], of_class)

\* C26: with a non-zero total value, asset_allocation maps each asset
\* class held to the sum of the current values of its investments over
\* the total value, so the fractions sum to 1 and, when no holding is
\* negative, lie in [0, 1]; with a total value of 0 it is the empty mapping.
C26_AllocationIsClassShareOfTotal ==
    \A n \in 1..Len(reads) :
        LET held == reads[n].investments
            total == SumOver([i \in 1..Len(held) |-> CurrentValue(held[i])],
                             1..Len(held))
            allocation == reads[n].asset_allocation
        IN  IF total = Zero THEN allocation = EmptyDict
            ELSE /\ DOMAIN allocation = ClassesHeld(held)
                 /\ \A c \in ClassesHeld(held) :
                        allocation[c] = RDiv(ClassValue(held, c), total)
                 /\ SumValues(allocation) = One
                 /\ (\A i \in 1..Len(held) : RGe(CurrentValue(held[i]), Zero))
                        => \A c \in DOMAIN allocation :
                               RGe(allocation[c], Zero) /\ RLe(allocation[c], One)

\* Two stock funds and a bond fund worth 6, 4 and 10: stocks are half of
\* the portfolio and bonds the other half.
C26_Witness ==
    /\ Len(reads) = 1 /\ Len(reads[1].investments) = 3
    /\ reads[1].total_value = Num(20)
    /\ DOMAIN reads[1].asset_allocation = {"stocks", "bonds"}
    /\ reads[1].asset_allocation["stocks"] = Q(1, 2)
    /\ reads[1].asset_allocation["bonds"] = Q(1, 2)

-----------------------------------------------------------------------------
(* SpecTrack: the monthly savings of a profile are set, and is_on_track    *)
(* and the readiness score of a plan are read, in floating point.          *)

\* A saver aged 64 on Today with no accounts; the amounts are floats.
TrackProfiles ==
    [name : {"Test User"}, birth_date : {<<1960, 1, 1>>}, retirement_age : {65},
     annual_income : {Num(64)}, income_growth_rate : {Zero},
     monthly_expenses : {One}, expense_growth_rate : {Zero},
     current_savings : {Zero, Num(20), Num(96)},
     monthly_savings : {Zero},
     investment_accounts : {EmptyDict}, retirement_accounts : {EmptyDict},
     debts : {EmptyDict}]

\* Years to retirement from -1 to 2; a monthly rate of 1 keeps
\* (1 + rate / 12) ** (12 * years) within 32-bit integers.
TrackPlans ==
    [target_retirement_age : 63..66,
     target_annual_income : {Num(17), Num(21), Num(29)},
     target_income_replacement_ratio : {Q(3, 4)},
     inflation_rate : {Zero},
     investment_return_rate : {Zero, Num(12)},
     withdrawal_rate : {Q(1, 8)},
     estimated_social_security : {None, Num(8)}]

TrackSavings == {One, Num(28), Num(64)}

InitTrack ==
    /\ today = Today /\ reads = <<>> /\ ctor = None /\ portfolio = None
    /\ profile \in TrackProfiles
    /\ PostInit(profile) = "ok"
    /\ plan \in TrackPlans
    /\ plan_out = [op |-> "pending", value |-> <<>>]
    /\ CalcIdle /\ ProjIdle /\ McIdle /\ ScenIdle

\* profile.monthly_savings = x
SetMonthlySavings(x) ==
    /\ plan_out.op = "pending"
    /\ profile.monthly_savings = Zero
    /\ profile' = [profile EXCEPT !.monthly_savings = x]
    /\ UNCHANGED <<today, plan, reads, ctor, portfolio, calcVars, planVars,
                   projVars, mcVars, scenVars>>

\* profile.monthly_savings = plan.calculate_monthly_savings_needed(profile)
SaveWhatIsNeeded ==
    SetMonthlySavings(MonthlySavingsNeededRounded(plan, profile, today))

\* The three methods of the plan, called on the profile as it is.
CallIsOnTrack ==
    /\ plan_out.op = "pending"
    /\ plan_out' =
          [op |-> "is_on_track",
           value |-> <<[needed |-> MonthlySavingsNeededRounded(plan, profile, today),
                        on_track |-> IsOnTrackRounded(plan, profile, today),
                        score |-> ReadinessScoreRounded(plan, profile, today)]>>]
    /\ UNCHANGED <<inputVars, calcVars, projVars, mcVars, scenVars>>

NextTrack ==
    \/ \E x \in TrackSavings : SetMonthlySavings(x)
    \/ SaveWhatIsNeeded
    \/ CallIsOnTrack

SpecTrack == InitTrack /\ [][NextTrack]_vars

TrackRead == plan_out.op = "is_on_track"
Track == plan_out.value[1]
YearsAhead == plan.target_retirement_age - Age(profile, today)

\* C29 as stated: with years to retirement > 0, a required portfolio > 0
\* and a return rate >= 0, the readiness score is 100 whenever
\* is_on_track is true; and calculate_monthly_savings_needed is never
\* negative and is 0 when years to retirement <= 0.
C29_OnTrackMeansScoreOfHundred ==
    TrackRead
        => /\ (/\ YearsAhead > 0
               /\ RGt(RequiredPortfolioValueRounded(plan, profile), Zero)
               /\ RGe(plan.investment_return_rate, Zero)
               /\ Track.on_track)
                  => Track.score = Hundred
           /\ RGe(Track.needed, Zero)
           /\ YearsAhead <= 0 => Track.needed = Zero

\* C29 as amended: under the same conditions the score is 100 up to
\* floating-point rounding (at least 100 less 7 rounding units of it), and
\* exactly 100 when the savings are at least twice the needed amount;
\* calculate_monthly_savings_needed is never negative and is 0 when years
\* to retirement <= 0.
C29_OnTrackMeansScoreOfHundredUpToRounding ==
    TrackRead
        => /\ (/\ YearsAhead > 0
               /\ RGt(RequiredPortfolioValueRounded(plan, profile), Zero)
               /\ RGe(plan.investment_return_rate, Zero)
               /\ Track.on_track)
                  => /\ RLe(Track.score, Hundred)
                     /\ RGe(RMul(Num(2 ^ MantissaBits), Track.score),
                            RMul(Num(2 ^ MantissaBits - 7), Hundred))
                     /\ RGe(profile.monthly_savings, RMul(Num(2), Track.needed))
                            => Track.score = Hundred
           /\ RGe(Track.needed, Zero)
           /\ YearsAhead <= 0 => Track.needed = Zero

\* A profile that saves exactly the amount needed, is on track, and scores
\* below 100.
C29_Witness ==
    /\ TrackRead /\ YearsAhead > 0
    /\ RGt(Track.needed, Zero)
    /\ profile.monthly_savings = Track.needed
    /\ Track.on_track
    /\ RLt(Track.score, Hundred)

====
